---------------------------- MODULE Spec2Model ----------------------------
(***************************************************************************)
(* A model of bevy_voxel's LodTree (src/src/collections/lod_tree.rs) and   *)
(* of the chunk update queue driven by the pipeline stages                 *)
(* (src/src/terrain/mod.rs, src/src/render/light.rs, src/examples/world.rs)*)
(***************************************************************************)
EXTENDS Integers, Sequences, FiniteSets, TLC

VARIABLES array, lod, len, status, last,
          updates, chunks, has_light, shaded, qstatus, qlast,
          root, vt_len,
          map, mesh, direction, shading

treeVars == <<array, lod, len, status, last>>
queueVars == <<updates, chunks, has_light, shaded, qstatus, qlast>>
volVars == <<root, vt_len>>
chunkVars == <<map, mesh, direction, shading>>
vars == <<array, lod, len, status, last,
          updates, chunks, has_light, shaded, qstatus, qlast,
          root, vt_len,
          map, mesh, direction, shading>>

(***************************************************************************)
(* Sizes.  The tree is the one the unit tests build, LodTree::new(4).      *)
(***************************************************************************)
Width == 4

MaxLod == 1

Values == {0, 1}

RECURSIVE Log2(_)
Log2(n) == IF n <= 1 THEN 0 ELSE 1 + Log2(n \div 2)

RECURSIVE Pow(_, _)
Pow(b, e) == IF e = 0 THEN 1 ELSE b * Pow(b, e - 1)

depth == Log2(Width)

capacity == Width * Width * Width

Slots == 0 .. capacity - 1

(* Option<T>: None is the empty sequence, Some(v) is <<v>>. *)
None == <<>>

Some(v) == <<v>>

(* enum Node<T> { Ref(usize), Value(Option<T>, usize) } *)
Ref(i) == [k |-> "Ref", idx |-> i]

Value(val, w) == [k |-> "Value", val |-> val, w |-> w]

(* The coordinates the single calls of the model are made with: four      *)
(* cells of the 2x2x2 block of tests::merge (its first and its last cell   *)
(* among them) and two coordinates outside the grid.                       *)
Coords ==
    {<<2, 2, 2>>, <<3, 2, 2>>, <<2, 3, 2>>, <<3, 3, 3>>}
        \cup {<<-1, 2, 2>>, <<3, 3, Width>>}

(* The unit cubes the terrain generator fills: the block of tests::merge.  *)
UnitWidth == 2

Units == {<<2, 2, 2>>}

AllCells == {<<x, y, z>> : x \in 0 .. Width - 1, y \in 0 .. Width - 1, z \in 0 .. Width - 1}

(***************************************************************************)
(* depth_index / array_index: the Morton code of a coordinate.  x & 1 of a *)
(* two's complement i32 is x % 2 and x >>= 1 is floor division.            *)
(***************************************************************************)
RECURSIVE depth_index_from(_, _, _, _, _)
depth_index_from(x, y, z, i, d) ==
    IF i >= d THEN 0
    ELSE ((x % 2) + 2 * (y % 2) + 4 * (z % 2)) * Pow(8, i)
            + depth_index_from(x \div 2, y \div 2, z \div 2, i + 1, d)

depth_index(c, d) == depth_index_from(c[1], c[2], c[3], 0, d)

RECURSIVE array_index_from(_, _, _)
array_index_from(idx, i, acc) ==
    IF i < 0 THEN acc
    ELSE LET b == idx \div Pow(8, i)
         IN  array_index_from(idx, i - 1,
                 <<2 * acc[1] + (b % 2),
                   2 * acc[2] + ((b \div 2) % 2),
                   2 * acc[3] + ((b \div 4) % 2)>>)

array_index(idx, d) == array_index_from(idx, d - 1, <<0, 0, 0>>)

(* A bounds check that lets z = width through. *)
InBounds_open_z(c) ==
    /\ c[1] >= 0 /\ c[1] < Width
    /\ c[2] >= 0 /\ c[2] < Width
    /\ c[3] >= 0 /\ c[3] <= Width

(* The bounds check every public call starts with. *)
InBounds(c) ==
    /\ c[1] >= 0 /\ c[1] < Width
    /\ c[2] >= 0 /\ c[2] < Width
    /\ c[3] >= 0 /\ c[3] < Width

(***************************************************************************)
(* Following Ref links.  The code loops until it meets a Value node; a     *)
(* chain longer than the array has a cycle and the loop never ends: -1.    *)
(***************************************************************************)
RECURSIVE Follow(_, _, _)
Follow(arr, i, fuel) ==
    IF arr[i].k = "Value" THEN i
    ELSE IF fuel = 0 THEN -1
    ELSE Follow(arr, arr[i].idx, fuel - 1)

Resolve(arr, i) == Follow(arr, i, capacity)

RECURSIVE ChainLen(_, _, _)
ChainLen(arr, i, fuel) ==
    IF arr[i].k = "Value" \/ fuel = 0 THEN 0
    ELSE 1 + ChainLen(arr, arr[i].idx, fuel - 1)

(* impl Voxel for i32 *)
can_merge(v) == TRUE

RECURSIVE SeqSum(_)
SeqSum(s) == IF s = <<>> THEN 0 ELSE Head(s) + SeqSum(Tail(s))

(* i32 division truncates toward zero. *)
TruncDiv(a, b) == IF a >= 0 THEN a \div b ELSE -((-a) \div b)

average(data) ==
    IF data = <<>> THEN None ELSE Some(TruncDiv(SeqSum(data), Len(data)))

(***************************************************************************)
(* LodTree::new                                                            *)
(***************************************************************************)
NoCall == [inb |-> TRUE]

new ==
    /\ array = [i \in Slots |-> Value(None, 1)]
    /\ lod = 0
    /\ len = 0
    /\ status = "ok"
    /\ last = NoCall

(***************************************************************************)
(* insert and remove share their body: swap a fresh Value(_, 1) into the   *)
(* slot and, when the slot held a Ref, follow the chain from the old       *)
(* contents and shift the width of the Value node it ends at right by the  *)
(* number of links followed.  The result is <<array, status>>.             *)
(***************************************************************************)
(* A swap that leaves a Ref where it finds one. *)
swap_in_keeps_ref(arr, idx, node) ==
    IF arr[idx].k = "Ref" THEN <<arr, "ok">>
    ELSE <<[arr EXCEPT ![idx] = node], "ok">>

swap_in(arr, idx, node) ==
    LET old == arr[idx]
        arr1 == [arr EXCEPT ![idx] = node]
    IN  IF old.k = "Value" THEN <<arr1, "ok">>
        ELSE LET t == Resolve(arr1, old.idx)
                 n == 1 + ChainLen(arr1, old.idx, capacity)
             IN  IF t = -1 THEN <<arr1, "hang">>
                 ELSE <<[arr1 EXCEPT ![t].w = @ \div Pow(2, n)], "ok">>

(* What the swap returns: the old contents' value, or the value the old    *)
(* Ref chain ends at.                                                      *)
swap_ret(arr, idx, node) ==
    LET old == arr[idx]
        arr1 == [arr EXCEPT ![idx] = node]
    IN  IF old.k = "Value" THEN old.val
        ELSE LET t == Resolve(arr1, old.idx)
             IN  IF t = -1 THEN None ELSE arr1[t].val

insert_impl(arr, c, v) ==
    IF ~InBounds(c) THEN <<arr, "ok">>
    ELSE swap_in(arr, depth_index(c, depth), Value(Some(v), 1))

insert_ret(arr, c, v) ==
    IF ~InBounds(c) THEN None
    ELSE swap_ret(arr, depth_index(c, depth), Value(Some(v), 1))

remove_impl(arr, c) ==
    IF ~InBounds(c) THEN <<arr, "ok">>
    ELSE swap_in(arr, depth_index(c, depth), Value(None, 1))

remove_ret(arr, c) ==
    IF ~InBounds(c) THEN None
    ELSE swap_ret(arr, depth_index(c, depth), Value(None, 1))

(***************************************************************************)
(* get_mut: the Value node the chain ends at gets width 1 and the slot     *)
(* itself becomes Value(clone, 1).  The caller receives a reference to the *)
(* value in the slot; a write through it leaves what insert of the written *)
(* value into that slot leaves, and is modelled by that insert.            *)
(***************************************************************************)
get_mut_impl(arr, c) ==
    IF ~InBounds(c) THEN <<arr, "ok">>
    ELSE LET idx == depth_index(c, depth)
             t == Resolve(arr, idx)
         IN  IF t = -1 THEN <<arr, "hang">>
             ELSE LET arr1 == [arr EXCEPT ![t].w = 1]
                      value == arr1[t].val
                  IN  <<[arr1 EXCEPT ![idx] = Value(value, 1)], "ok">>

get_mut_ret(arr, c) ==
    IF ~InBounds(c) THEN None
    ELSE LET t == Resolve(arr, depth_index(c, depth))
         IN  IF t = -1 THEN None ELSE arr[t].val

(***************************************************************************)
(* The reads.  get_impl (and so contains_key) does no bounds check; get    *)
(* does.  A read that never returns (a Ref cycle) is Diverges.  A result   *)
(* that is no Option has two components, so it equals no Some(v).          *)
(***************************************************************************)
Diverges == <<"diverges", "never returns">>

get_impl(arr, c) ==
    LET t == Resolve(arr, depth_index(c, depth))
    IN  IF t = -1 THEN Diverges ELSE arr[t].val

contains_key(arr, c) == get_impl(arr, c) # None

(* The slots array[start..end] of the aligned cube of side 2^l around c,   *)
(* resolved and flattened (flat_map drops the empty cells).                *)
RECURSIVE lod_values(_, _, _)
lod_values(arr, i, end) ==
    IF i >= end THEN <<>>
    ELSE LET t == Resolve(arr, i)
         IN  (IF t = -1 THEN None ELSE arr[t].val) \o lod_values(arr, i + 1, end)

OutOfRange == <<"panic", "slice index out of range">>

(* A get whose range starts at the cell's own slot, not the cube's. *)
get_lod_unaligned(arr, l, c) ==
    IF ~InBounds(c) THEN None
    ELSE IF l = 0 THEN get_impl(arr, c)
    ELSE LET start == depth_index(c, depth)
             end == start + Pow(2, l) * Pow(2, l) * Pow(2, l)
         IN  IF end > capacity THEN OutOfRange
             ELSE IF \E i \in start .. end - 1 : Resolve(arr, i) = -1 THEN Diverges
             ELSE average(lod_values(arr, start, end))

get_lod(arr, l, c) ==
    IF ~InBounds(c) THEN None
    ELSE IF l = 0 THEN get_impl(arr, c)
    ELSE LET width == Pow(2, l)
             mc == <<c[1] - (c[1] % width), c[2] - (c[2] % width), c[3] - (c[3] % width)>>
             start == depth_index(mc, depth)
             end == start + width * width * width
         IN  IF end > capacity THEN OutOfRange
             ELSE IF \E i \in start .. end - 1 : Resolve(arr, i) = -1 THEN Diverges
             ELSE average(lod_values(arr, start, end))

get(c) == get_lod(array, lod, c)

(***************************************************************************)
(* elements(): the array is cut into chunks of (2^lod)^3 slots; a chunk's  *)
(* element takes the coordinates and width of the node its last slot       *)
(* resolves to (width at least 2^lod, coordinates masked to the width),    *)
(* is dropped when an element with these coordinates and width was seen    *)
(* before, and carries the average of the chunk's values; a chunk without  *)
(* values yields nothing.                                                  *)
(***************************************************************************)
Max(a, b) == IF a >= b THEN a ELSE b

Min(a, b) == IF a <= b THEN a ELSE b

Element(x, y, z, w, v) == [x |-> x, y |-> y, z |-> z, width |-> w, value |-> v]

RECURSIVE elements_from(_, _, _, _)
elements_from(arr, l, big_i, seen) ==
    LET volume == Pow(Pow(2, l), 3)
        first == big_i * volume
        end == Min(capacity, first + volume)
    IN  IF first >= capacity THEN <<>>
        ELSE LET t == Resolve(arr, end - 1)
                 width == Max(arr[t].w, Pow(2, l))
                 p == array_index(t, depth)
                 key == <<p[1] - (p[1] % width), p[2] - (p[2] % width),
                          p[3] - (p[3] % width), width>>
                 avg == average(lod_values(arr, first, end))
             IN  IF key \in seen THEN elements_from(arr, l, big_i + 1, seen)
                 ELSE (IF avg = None THEN <<>>
                       ELSE <<Element(key[1], key[2], key[3], width, avg[1])>>)
                          \o elements_from(arr, l, big_i + 1, seen \cup {key})

elements(arr, l) == elements_from(arr, l, 0, {})

(* position(value): the coordinates of the first slot, in array order,     *)
(* that resolves to a node holding the value.                              *)
position(arr, v) ==
    LET hits == {i \in Slots : arr[Resolve(arr, i)].val = Some(v)}
    IN  IF hits = {} THEN None
        ELSE LET i == CHOOSE j \in hits : \A k \in hits : j <= k
             IN  Some(array_index(Resolve(arr, i), depth))

(***************************************************************************)
(* merge.  One level d: the slots that are multiples of 8^(d-1) are taken  *)
(* in groups of eight; the first of a group, resolved, is the pivot, and   *)
(* each other one whose resolved node equals the pivot in value and width  *)
(* (and can merge) pushes its resolved index to merges[pivot_idx].         *)
(* An entry of merges is [n |-> pushes, s |-> the indices pushed].         *)
(***************************************************************************)
skip_of(d) == Pow(8, d - 1)

LevelSlots(d) == {i \in Slots : i % skip_of(d) = 0}

PivotSlot(i, d) == i - (i % (8 * skip_of(d)))

(* A comparison of the widths alone: the values are not compared. *)
Matches_width_only(arr, r, i, d) ==
    LET p == arr[r[PivotSlot(i, d)]]
        e == arr[r[i]]
    IN  /\ (e.val = None \/ can_merge(e.val[1]))
        /\ e.w = p.w

(* r: the resolved index of every slot of the level. *)
Matches(arr, r, i, d) ==
    LET p == arr[r[PivotSlot(i, d)]]
        e == arr[r[i]]
    IN  /\ (e.val = None \/ can_merge(e.val[1]))
        /\ e.val = p.val
        /\ e.w = p.w

Pushers(arr, r, d) ==
    {i \in LevelSlots(d) : i # PivotSlot(i, d) /\ Matches(arr, r, i, d)}

(* merges, as a function from pivot_idx to its entry. *)
Merges(arr, r, d) ==
    LET push == Pushers(arr, r, d)
        keys == {r[PivotSlot(i, d)] : i \in push}
    IN  [P \in keys |->
            LET mine == {i \in push : r[PivotSlot(i, d)] = P}
            IN  [n |-> Cardinality(mine), s |-> {r[i] : i \in mine}]]

(* One iteration of `for (pivot_idx, idxs) in merges`: <<array, status>>.  *)
(* dbg: debug assertions are compiled in.                                  *)
(* An iteration that collapses on 8 indices instead of 7. *)
ApplyEntry_on_eight(arr, P, e, dbg) ==
    IF e.n = 8
    THEN <<[i \in Slots |-> IF i \in e.s THEN Ref(P)
                            ELSE IF i = P THEN [arr[i] EXCEPT !.w = 2 * @]
                            ELSE arr[i]], "ok">>
    ELSE <<arr, "ok">>

ApplyEntry(arr, P, e, dbg) ==
    IF dbg /\ e.n >= 8 THEN <<arr, "assert">>
    ELSE IF e.n = 7
    THEN LET arr1 == [i \in Slots |-> IF i \in e.s THEN Ref(P) ELSE arr[i]]
         IN  IF arr1[P].k = "Value"
             THEN <<[arr1 EXCEPT ![P].w = 2 * @], "ok">>
             ELSE <<arr1, "unreachable">>
    ELSE <<arr, "ok">>

(* The entries whose iteration does something. *)
ActiveKeys(ents, dbg) ==
    {P \in DOMAIN ents : ents[P].n = 7 \/ (dbg /\ ents[P].n >= 8)}

(* The HashMap is iterated in an unspecified order.  The order matters     *)
(* only when an iteration panics or two entries touch the same slot.       *)
OrderMatters(ents, act, dbg) ==
    \E P \in act :
        \/ dbg /\ ents[P].n >= 8
        \/ \E Q \in act :
              \/ P \in ents[Q].s
              \/ Q # P /\ ents[P].s \cap ents[Q].s # {}

(* Every order: from <<array, keys left>> to the set of <<array, status>>. *)
RECURSIVE InOrders(_, _, _)
InOrders(front, ents, dbg) ==
    IF front = {} THEN {}
    ELSE LET finished == {<<f[1], "ok">> : f \in {g \in front : g[2] = {}}}
             steps == UNION {{<<ApplyEntry(f[1], P, ents[P], dbg), f[2] \ {P}>> : P \in f[2]}
                                : f \in front}
             panics == {st[1] : st \in {t \in steps : t[1][2] # "ok"}}
             next == {<<st[1][1], st[2]>> : st \in {t \in steps : t[1][2] = "ok"}}
         IN  finished \cup panics \cup InOrders(next, ents, dbg)

RECURSIVE ApplyAll(_, _, _, _)
ApplyAll(arr, keys, ents, dbg) ==
    IF keys = {} THEN arr
    ELSE LET P == CHOOSE Q \in keys : \A R \in keys : Q <= R
         IN  ApplyAll(ApplyEntry(arr, P, ents[P], dbg)[1], keys \ {P}, ents, dbg)

level_outcomes(arr, ents, dbg) ==
    LET act == ActiveKeys(ents, dbg)
    IN  IF OrderMatters(ents, act, dbg)
        THEN InOrders({<<arr, act>>}, ents, dbg)
        ELSE {<<ApplyAll(arr, act, ents, dbg), "ok">>}

LevelResolved(arr, d) == [i \in LevelSlots(d) |-> Resolve(arr, i)]

(* for d in 1..=self.depth, in one build *)
RECURSIVE merge_from(_, _, _)
merge_from(arr, d, dbg) ==
    IF d > depth THEN {<<arr, "ok">>}
    ELSE LET r == LevelResolved(arr, d)
         IN  IF \E i \in LevelSlots(d) : r[i] = -1 THEN {<<arr, "hang">>}
             ELSE UNION {IF o[2] = "ok" THEN merge_from(o[1], d + 1, dbg) ELSE {o}
                            : o \in level_outcomes(arr, Merges(arr, r, d), dbg)}

(* merge in both builds: they differ from the first level on at which an   *)
(* entry holds 8 or more indices, where the debug build always panics.     *)
RECURSIVE merge_builds(_, _)
merge_builds(arr, d) ==
    IF d > depth THEN {<<arr, "ok">>}
    ELSE LET r == LevelResolved(arr, d)
         IN  IF \E i \in LevelSlots(d) : r[i] = -1 THEN {<<arr, "hang">>}
             ELSE LET ents == Merges(arr, r, d)
                      rel == level_outcomes(arr, ents, FALSE)
                  IN  IF \E P \in DOMAIN ents : ents[P].n >= 8
                      THEN level_outcomes(arr, ents, TRUE)
                             \cup UNION {IF o[2] = "ok" THEN merge_from(o[1], d + 1, FALSE)
                                         ELSE {o} : o \in rel}
                      ELSE UNION {IF o[2] = "ok" THEN merge_builds(o[1], d + 1)
                                  ELSE {o} : o \in rel}

merge_impl(arr) == merge_builds(arr, 1)

(***************************************************************************)
(* The calls, as actions.  A call that panicked or hangs ends the run of   *)
(* the tree's owner.                                                       *)
(***************************************************************************)
(* last: whether the last call's coordinate passed the bounds check (a     *)
(* call without a coordinate has nothing to be rejected for).              *)
Call(c) == [inb |-> InBounds(c)]

insert(c, v) ==
    /\ status = "ok"
    /\ last' = Call(c)
    /\ LET o == insert_impl(array, c, v)
       IN  array' = o[1] /\ status' = o[2]
    /\ UNCHANGED <<lod, len>>
    /\ UNCHANGED <<queueVars, volVars, chunkVars>>

remove(c) ==
    /\ status = "ok"
    /\ last' = Call(c)
    /\ LET o == remove_impl(array, c)
       IN  array' = o[1] /\ status' = o[2]
    /\ UNCHANGED <<lod, len>>
    /\ UNCHANGED <<queueVars, volVars, chunkVars>>

get_mut(c) ==
    /\ status = "ok"
    /\ last' = Call(c)
    /\ LET o == get_mut_impl(array, c)
       IN  array' = o[1] /\ status' = o[2]
    /\ UNCHANGED <<lod, len>>
    /\ UNCHANGED <<queueVars, volVars, chunkVars>>

merge ==
    /\ status = "ok"
    /\ last' = NoCall
    /\ \E o \in merge_impl(array) :
          /\ array' = o[1]
          /\ status' = o[2]
    /\ UNCHANGED <<lod, len>>
    /\ UNCHANGED <<queueVars, volVars, chunkVars>>

(* The generator's fill of one unit cube, terrain_gen2_impl's              *)
(*   for ix, iy, iz in 0..unit_width { chunk.insert((x+ix, y+iy, z+iz), block) } *)
RECURSIVE fill_impl(_, _, _, _)
fill_impl(arr, u, v, n) ==
    IF n = UnitWidth * UnitWidth * UnitWidth THEN <<arr, "ok">>
    ELSE LET ix == n \div (UnitWidth * UnitWidth)
             iy == (n \div UnitWidth) % UnitWidth
             iz == n % UnitWidth
             o == insert_impl(arr, <<u[1] + ix, u[2] + iy, u[3] + iz>>, v)
         IN  IF o[2] # "ok" THEN o ELSE fill_impl(o[1], u, v, n + 1)

fill(u, v) ==
    /\ status = "ok"
    /\ last' = Call(u)
    /\ LET o == fill_impl(array, u, v, 0)
       IN  array' = o[1] /\ status' = o[2]
    /\ UNCHANGED <<lod, len>>
    /\ UNCHANGED <<queueVars, volVars, chunkVars>>

set_lod(l) ==
    /\ status = "ok"
    /\ last' = NoCall
    /\ lod' = l
    /\ UNCHANGED <<array, len, status>>
    /\ UNCHANGED <<queueVars, volVars, chunkVars>>

Insert == \E c \in Coords, v \in Values : insert(c, v)

Remove == \E c \in Coords : remove(c)

GetMut == \E c \in Coords : get_mut(c)

Fill == \E u \in Units, v \in Values : fill(u, v)

Merge == merge

SetLod == \E l \in 0 .. MaxLod : set_lod(l)

(***************************************************************************)
(* The update queue (MapUpdates.updates, a HashMap from chunk coordinate   *)
(* to ChunkUpdate), the Map's chunks and their has_light flags, and the    *)
(* four stage passes.  Coordinates are in units of the chunk width.        *)
(* shaded holds the chunks whose voxels shaded_light_update has written    *)
(* shades to (and then merged) since they were generated.                  *)
(* qstatus is "panic" once a pass has panicked; qlast is the last pass run *)
(* and the coordinates it processed.                                       *)
(***************************************************************************)
QCoords == {<<0, 0, 0>>, <<1, 0, 0>>, <<1, 1, 1>>}

(* #[derive(PartialOrd, Ord)] orders the variants as they are declared. *)
priority(u) ==
    CASE u = "GenerateChunk" -> 0
      [] u = "UpdateLightMap" -> 1
      [] u = "UpdateLight" -> 2
      [] u = "UpdateMesh" -> 3

(* for lx, ly, lz in -range..=range, with range = 1 *)
Offsets == {<<lx, ly, lz>> : lx \in -1 .. 1, ly \in -1 .. 1, lz \in -1 .. 1}

Plus(c, l) == <<c[1] + l[1], c[2] + l[2], c[3] + l[3]>>

Around(c) == {Plus(c, l) : l \in Offsets \ {<<0, 0, 0>>}}

Pending(upd, u) == {c \in DOMAIN upd : upd[c] = u}

(* The example's setup: a GenerateChunk entry for every coordinate of the  *)
(* world, an empty Map.                                                    *)
setup ==
    /\ updates = [c \in QCoords |-> "GenerateChunk"]
    /\ chunks = {}
    /\ has_light = {}
    /\ shaded = {}
    /\ qstatus = "ok"
    /\ qlast = [pass |-> "setup", at |-> {}]

(* The coordinates terrain_generation pushes UpdateLightMap for while it   *)
(* generates the chunk at c.                                               *)
terrain_pushes(upd, c) ==
    {Plus(c, l) : l \in
        {m \in Offsets :
            ~ (/\ m[1] # 0 /\ m[2] # 0 /\ m[3] # 0
               /\ Plus(c, m) \in DOMAIN upd
               /\ ~ (priority(upd[Plus(c, m)]) > priority("UpdateLightMap")))}}

(* for (coords, u) in insert of the light passes: HashMap::insert, which  *)
(* replaces whatever entry the coordinate holds.                           *)
insert_pushed_over(upd, pushed, u) ==
    [n \in DOMAIN upd \cup pushed |-> IF n \in pushed THEN u ELSE upd[n]]

(* The generation pass inserting the way the light passes do. *)
insert_pushed_unchecked(upd, pushed, u) == insert_pushed_over(upd, pushed, u)

(* for (coords, u) in insert: insert only where no entry is held. *)
insert_pushed(upd, pushed, u) ==
    [n \in DOMAIN upd \cup pushed |-> IF n \in DOMAIN upd THEN upd[n] ELSE u]

(* A removal that removes nothing. *)
remove_nothing(upd, gone) == upd

remove_all(upd, gone) == [n \in DOMAIN upd \ gone |-> upd[n]]

(* One pass of terrain_generation: max_count = 1, so the first             *)
(* GenerateChunk entry the HashMap's iteration meets, any of them, is      *)
(* processed; without one the pass changes nothing.                        *)
terrain_generation(c) ==
    /\ qstatus = "ok"
    /\ c \in Pending(updates, "GenerateChunk")
    /\ chunks' = chunks \cup {c}
    /\ has_light' = has_light \ {c}
    /\ shaded' = shaded \ {c}
    /\ updates' = insert_pushed(remove_all(updates, {c}), terrain_pushes(updates, c),
                                "UpdateLightMap")
    /\ qlast' = [pass |-> "terrain_generation", at |-> {c}]
    /\ UNCHANGED qstatus
    /\ UNCHANGED <<treeVars, volVars, chunkVars>>

terrain_generation_idle ==
    /\ qstatus = "ok"
    /\ Pending(updates, "GenerateChunk") = {}
    /\ qlast' = [pass |-> "terrain_generation", at |-> {}]
    /\ UNCHANGED <<updates, chunks, has_light, shaded, qstatus>>
    /\ UNCHANGED <<treeVars, volVars, chunkVars>>

(* One pass of light_map_update: every UpdateLightMap entry is removed;    *)
(* where the Map holds a chunk, the chunk's light map is computed, its     *)
(* has_light is set and UpdateLight is inserted.                           *)
light_map_update ==
    LET todo == Pending(updates, "UpdateLightMap")
        lit == todo \cap chunks
    IN  /\ qstatus = "ok"
        /\ updates' = insert_pushed_over(remove_all(updates, todo), lit, "UpdateLight")
        /\ has_light' = has_light \cup lit
        /\ qlast' = [pass |-> "light_map_update", at |-> todo]
        /\ UNCHANGED <<chunks, shaded, qstatus>>
        /\ UNCHANGED <<treeVars, volVars, chunkVars>>

(* A chunk whose padded light buffer comes out short: a worker returns     *)
(* early when a neighbouring chunk exists and has no light yet.            *)
ShortBuffer(c) == \E n \in Around(c) : n \in chunks /\ n \notin has_light

(* One pass of shaded_light_update.  map.get(c).unwrap() panics in the    *)
(* collect phase for an UpdateLight entry without a chunk.  The apply      *)
(* phase then takes every UpdateLight entry, in the HashMap's order:       *)
(* it writes the chunk's shades from its buffer, merges the chunk and      *)
(* pushes UpdateMesh; indexing a short buffer panics or not with the       *)
(* voxels the chunk holds.  panics is the chunk the pass panics at (<<>>   *)
(* for none), before the chunks the apply phase went through before it.    *)
shaded_light_update(panics, before) ==
    LET todo == Pending(updates, "UpdateLight")
    IN  /\ qstatus = "ok"
        /\ panics \in {c \in todo : ShortBuffer(c) \/ c \notin chunks} \cup {<<>>}
        /\ panics = <<>> => todo \subseteq chunks
        /\ before \subseteq todo \ {panics}
        /\ (panics = <<>> \/ ~ (todo \subseteq chunks)) => before = {}
        /\ IF panics # <<>>
           THEN /\ qstatus' = "panic"
                /\ shaded' = shaded \cup before
                /\ UNCHANGED updates
           ELSE /\ updates' = insert_pushed_over(remove_all(updates, todo), todo, "UpdateMesh")
                /\ shaded' = shaded \cup todo
                /\ UNCHANGED qstatus
        /\ qlast' = [pass |-> "shaded_light_update", at |-> todo]
        /\ UNCHANGED <<chunks, has_light>>
        /\ UNCHANGED <<treeVars, volVars, chunkVars>>

(* One pass of the mesh stage (chunk_update): every UpdateMesh entry is    *)
(* removed and its chunk meshed; map.get(c).unwrap() panics without one.   *)
chunk_update ==
    LET todo == Pending(updates, "UpdateMesh")
    IN  /\ qstatus = "ok"
        /\ IF todo \subseteq chunks
           THEN /\ updates' = remove_all(updates, todo)
                /\ UNCHANGED qstatus
           ELSE /\ qstatus' = "panic"
                /\ UNCHANGED updates
        /\ qlast' = [pass |-> "chunk_update", at |-> todo]
        /\ UNCHANGED <<chunks, has_light, shaded>>
        /\ UNCHANGED <<treeVars, volVars, chunkVars>>

TerrainGeneration == \E c \in QCoords : terrain_generation(c)

TerrainGenerationIdle == terrain_generation_idle

LightMapUpdate == light_map_update

ShadedLightUpdate ==
    \E p \in QCoords \cup {<<>>}, b \in SUBSET QCoords : shaded_light_update(p, b)

ChunkUpdate == chunk_update

(***************************************************************************)
(* VolumetricTree: an octree of owned nodes.  A node of width w covers the *)
(* coordinates -w/2 .. w/2 - 1 on each axis; a Leaf holds one Option for   *)
(* its whole cube, a Branch eight children of half the width, indexed by   *)
(* sp_index.                                                               *)
(***************************************************************************)
VWidth == 4

Leaf(w, v) == [k |-> "Leaf", width |-> w, value |-> v]

Branch(w, es) == [k |-> "Branch", width |-> w, elems |-> es]

sp_index(d) == d[1] + 2 * d[2] + 4 * d[3]

dir_index(idx) == <<idx % 2, (idx \div 2) % 2, (idx \div 4) % 2>>

signum(x) == IF x > 0 THEN 1 ELSE IF x < 0 THEN -1 ELSE 0

(* (x.signum() + 2) / 2: 0 on the negative side, 1 on the other. *)
side(x) == TruncDiv(signum(x) + 2, 2)

(* A descent that keeps the parent's origin: the + width_4 is left out. *)
descend_unshifted(c, w) ==
    LET width_2 == w \div 2
    IN  [dir |-> <<side(c[1]), side(c[2]), side(c[3])>>,
         c |-> <<c[1] - width_2 * side(c[1]),
                 c[2] - width_2 * side(c[2]),
                 c[3] - width_2 * side(c[3])>>]

(* The child a coordinate falls in and the coordinate in the child's frame. *)
descend(c, w) ==
    LET width_2 == w \div 2
        width_4 == width_2 \div 2
    IN  [dir |-> <<side(c[1]), side(c[2]), side(c[3])>>,
         c |-> <<c[1] - width_2 * side(c[1]) + width_4,
                 c[2] - width_2 * side(c[2]) + width_4,
                 c[3] - width_2 * side(c[3]) + width_4>>]

(* A merge that leaves every Branch as it is. *)
node_merge_never(n) == n

(* Node::merge: a Branch whose first child is a Leaf and whose other seven *)
(* children equal it becomes that Leaf with the width doubled.             *)
node_merge(n) ==
    IF n.k = "Leaf" THEN n
    ELSE LET first == n.elems[1]
         IN  IF first.k = "Branch" THEN n
             ELSE IF \E i \in 2 .. 8 : n.elems[i] # first THEN n
             ELSE Leaf(first.width * 2, first.value)

(* Node::insert and Node::remove are one walk; put is the Option written   *)
(* into the unit leaf.  A Leaf wider than 1 is split into eight copies of  *)
(* itself first, and its own value is what the call returns.               *)
RECURSIVE node_put(_, _, _)
node_put(n, c, put) ==
    IF n.k = "Leaf"
    THEN IF n.width = 1
         THEN [node |-> Leaf(n.width, put), ret |-> n.value]
         ELSE LET to == descend(c, n.width)
                  i == sp_index(to.dir) + 1
                  elems == [j \in 1 .. 8 |-> Leaf(n.width \div 2, n.value)]
                  sub == node_put(elems[i], to.c, put)
              IN  [node |-> node_merge(Branch(n.width, [elems EXCEPT ![i] = sub.node])),
                   ret |-> n.value]
    ELSE LET to == descend(c, n.width)
             i == sp_index(to.dir) + 1
             sub == node_put(n.elems[i], to.c, put)
         IN  [node |-> node_merge(Branch(n.width, [n.elems EXCEPT ![i] = sub.node])),
              ret |-> sub.ret]

node_insert(n, c, v) == node_put(n, c, Some(v))

node_remove(n, c) == node_put(n, c, None)

RECURSIVE node_get(_, _)
node_get(n, c) ==
    IF n.k = "Leaf" THEN n.value
    ELSE LET to == descend(c, n.width)
         IN  node_get(n.elems[sp_index(to.dir) + 1], to.c)

vt_in_bounds(rt, c) ==
    \A i \in 1 .. 3 :
        ~ (c[i] >= TruncDiv(rt.width, 2) \/ c[i] < TruncDiv(rt.width, -2))

vt_get(rt, c) == IF ~vt_in_bounds(rt, c) THEN None ELSE node_get(rt, c)

vt_insert_impl(rt, n, c, v) ==
    IF ~vt_in_bounds(rt, c) THEN [root |-> rt, len |-> n, ret |-> None]
    ELSE LET r == node_insert(rt, c, v)
         IN  [root |-> r.node, len |-> IF r.ret = None THEN n + 1 ELSE n, ret |-> r.ret]

vt_remove_impl(rt, n, c) ==
    IF ~vt_in_bounds(rt, c) THEN [root |-> rt, len |-> n, ret |-> None]
    ELSE LET r == node_remove(rt, c)
         IN  [root |-> r.node, len |-> IF r.ret # None THEN n - 1 ELSE n, ret |-> r.ret]

(***************************************************************************)
(* VolumetricTree::elements and Elements::next.  The iterator holds the    *)
(* path idx of child indices to the leaf it yields next, and empty.        *)
(***************************************************************************)
RECURSIVE node_at(_, _)
node_at(n, idx) ==
    IF idx = <<>> THEN n ELSE node_at(n.elems[Head(idx) + 1], Tail(idx))

(* The corner of the node at idx: each step adds dir_index * width_2. *)
RECURSIVE corner_at(_, _, _)
corner_at(n, idx, at) ==
    IF idx = <<>> THEN at
    ELSE LET width_2 == n.width \div 2
             d == dir_index(Head(idx))
         IN  corner_at(n.elems[Head(idx) + 1], Tail(idx),
                       [i \in 1 .. 3 |-> at[i] + d[i] * width_2])

Visits(n) == n.k = "Branch" \/ n.value # None

NoPath == <<8>>

(* The path elements() starts with: in each Branch the first child that is *)
(* a Branch or a Leaf with a value; a Branch without one keeps the loop    *)
(* in place for ever (NoPath).                                             *)
RECURSIVE first_path(_)
first_path(n) ==
    IF n.k = "Leaf" THEN <<>>
    ELSE LET good == {i \in 1 .. 8 : Visits(n.elems[i])}
         IN  IF good = {} THEN NoPath
             ELSE LET i == CHOOSE j \in good : \A h \in good : j <= h
                      rest == first_path(n.elems[i])
                  IN  IF rest = NoPath THEN NoPath ELSE <<i - 1>> \o rest

vt_elements_new(rt) ==
    [idx |-> first_path(rt), empty |-> rt.k = "Leaf" /\ rt.value = None]

(* The inner loop on idx == 8: pop, and bump the parent's index. *)
RECURSIVE carry(_)
carry(idx) ==
    LET popped == SubSeq(idx, 1, Len(idx) - 1)
    IN  IF popped = <<>> THEN popped
        ELSE LET bumped == [popped EXCEPT ![Len(popped)] = @ + 1]
             IN  IF bumped[Len(bumped)] = 8 THEN carry(bumped) ELSE bumped

(* The loop that moves idx to the next leaf with a value. *)
RECURSIVE advance(_, _, _)
advance(rt, idx, changed) ==
    IF idx = <<>> THEN idx
    ELSE LET node == node_at(rt, idx)
         IN  IF node.k = "Leaf"
             THEN IF node.value # None /\ changed THEN idx
                  ELSE LET bumped == [idx EXCEPT ![Len(idx)] = @ + 1]
                       IN  advance(rt, IF bumped[Len(bumped)] = 8 THEN carry(bumped)
                                       ELSE bumped, TRUE)
             ELSE advance(rt, Append(idx, 0), TRUE)

VElement(at, w, v) == [x |-> at[1], y |-> at[2], z |-> at[3], width |-> w, value |-> v]

elements_next(rt, it) ==
    IF it.empty THEN [item |-> None, it |-> it]
    ELSE LET node == node_at(rt, it.idx)
             half == rt.width \div 2
             at == corner_at(rt, it.idx, <<-half, -half, -half>>)
         IN  IF ~ (node.k = "Leaf" /\ node.value # None) THEN [item |-> None, it |-> it]
             ELSE LET idx == advance(rt, it.idx, FALSE)
                  IN  [item |-> Some(VElement(at, node.width, node.value[1])),
                       it |-> [idx |-> idx, empty |-> idx = <<>>]]

RECURSIVE collect(_, _)
collect(rt, it) ==
    LET r == elements_next(rt, it)
    IN  IF r.item = None THEN <<>> ELSE r.item \o collect(rt, r.it)

(* elements().collect(); with a Branch of eight empty leaves on the way    *)
(* the constructor does not return.                                        *)
vt_elements(rt) ==
    LET it == vt_elements_new(rt)
    IN  IF it.idx = NoPath THEN Diverges ELSE collect(rt, it)

vt_new == root = Leaf(VWidth, None) /\ vt_len = 0

(* The eight cells of the octant (0..1)^3, one cell of the opposite        *)
(* octant, and one coordinate past the edge.                               *)
VCoords ==
    {<<x, y, z>> : x \in 0 .. 1, y \in 0 .. 1, z \in 0 .. 1}
        \cup {<<-1, -1, -1>>, <<2, 0, 0>>}

(* The inserts: 0 at every coordinate, 1 at two cells of the octant and at *)
(* the cell of the opposite octant.                                        *)
VInserts ==
    {<<c, 0>> : c \in VCoords}
        \cup {<<c, 1>> : c \in {<<0, 0, 0>>, <<1, 1, 1>>, <<-1, -1, -1>>}}

vt_insert(c, v) ==
    LET r == vt_insert_impl(root, vt_len, c, v)
    IN  /\ root' = r.root
        /\ vt_len' = r.len
        /\ UNCHANGED <<treeVars, queueVars, chunkVars>>

vt_remove(c) ==
    LET r == vt_remove_impl(root, vt_len, c)
    IN  /\ root' = r.root
        /\ vt_len' = r.len
        /\ UNCHANGED <<treeVars, queueVars, chunkVars>>

VtInsert == \E call \in VInserts : vt_insert(call[1], call[2])

VtRemove == \E c \in VCoords : vt_remove(c)

(***************************************************************************)
(* The Map of chunks and the mesh of a chunk.  A chunk is its position,    *)
(* its voxels (data, the cells that hold a Block), its light values and    *)
(* has_light; its width is Width.  A Block is its mesh type and the alpha  *)
(* of its colour in tenths.                                                *)
(***************************************************************************)
Block(mesh_type, a) == [mesh_type |-> mesh_type, a |-> a]

Stone == Block("Cube", 10)

Glass == Block("Cube", 5)

Plant == Block("Cross", 10)

solid(b) == b.mesh_type = "Cube" /\ b.a = 10

transparent(b) == b.a < 10

chunk_new(pos) ==
    [position |-> pos, data |-> <<>>, light |-> <<>>, has_light |-> FALSE]

(* Map::get: the chunk whose envelope position .. position + w - 1 holds   *)
(* the point.                                                              *)
map_get(m, p) ==
    LET at == {ch \in m : \A a \in 1 .. 3 :
                  ch.position[a] <= p[a] /\ p[a] <= ch.position[a] + Width - 1}
    IN  IF at = {} THEN None ELSE Some(CHOOSE ch \in at : TRUE)

(* Chunk::get: the Block of a cell, None for an empty or outside cell. *)
chunk_get(ch, c) == IF c \in DOMAIN ch.data THEN Some(ch.data[c]) ELSE None

(* Chunk::iter at lod 0 on unmerged voxels: each cell with a Block, width 1. *)
chunk_iter(ch) == {[at |-> c, width |-> 1, value |-> ch.data[c]] : c \in DOMAIN ch.data}

(* A test that culls nothing. *)
culls_never(block, other) == FALSE

(* The closure of the side generators: both solid or both transparent. *)
culls(block, other) ==
    (solid(block) /\ solid(other)) \/ (transparent(block) /\ transparent(other))

(* !chunk.get(c).map(culls).unwrap_or(false) *)
render_against(block, ch, c) ==
    LET other == chunk_get(ch, c)
    IN  ~ (IF other = None THEN FALSE ELSE culls(block, other[1]))

(* A boundary test that renders the face when the chunk across is absent. *)
render_across_open(block, m, p, c) ==
    LET across == map_get(m, p)
    IN  IF across # None THEN render_against(block, across[1], c) ELSE TRUE

(* The boundary branch: the chunk across, when the Map holds it. *)
render_across(block, m, p, c) ==
    LET across == map_get(m, p)
    IN  IF across # None THEN render_against(block, across[1], c) ELSE FALSE

Shift(p, a, by) == [p EXCEPT ![a] = @ + by]

generate_top_side(block, m, ch, c, width) ==
    \E dx \in 0 .. width - 1, dz \in 0 .. width - 1 :
        IF c[2] + width >= Width
        THEN render_across(block, m, Shift(ch.position, 2, Width), <<c[1] + dx, 0, c[3] + dz>>)
        ELSE render_against(block, ch, <<c[1] + dx, c[2] + width, c[3] + dz>>)

generate_bottom_side(block, m, ch, c, width) ==
    \E dx \in 0 .. width - 1, dz \in 0 .. width - 1 :
        IF c[2] - 1 < 0
        THEN render_across(block, m, Shift(ch.position, 2, -Width),
                           <<c[1] + dx, Width - 1, c[3] + dz>>)
        ELSE render_against(block, ch, <<c[1] + dx, c[2] - 1, c[3] + dz>>)

generate_front_side(block, m, ch, c, width) ==
    \E dx \in 0 .. width - 1, dy \in 0 .. width - 1 :
        IF c[3] + width >= Width
        THEN render_across(block, m, Shift(ch.position, 3, Width), <<c[1] + dx, c[2] + dy, 0>>)
        ELSE render_against(block, ch, <<c[1] + dx, c[2] + dy, c[3] + width>>)

generate_back_side(block, m, ch, c, width) ==
    \E dx \in 0 .. width - 1, dy \in 0 .. width - 1 :
        IF c[3] - 1 < 0
        THEN render_across(block, m, Shift(ch.position, 3, -Width),
                           <<c[1] + dx, c[2] + dy, Width - 1>>)
        ELSE render_against(block, ch, <<c[1] + dx, c[2] + dy, c[3] - 1>>)

generate_left_side(block, m, ch, c, width) ==
    \E dy \in 0 .. width - 1, dz \in 0 .. width - 1 :
        IF c[1] + width >= Width
        THEN render_across(block, m, Shift(ch.position, 1, Width), <<0, c[2] + dy, c[3] + dz>>)
        ELSE render_against(block, ch, <<c[1] + width, c[2] + dy, c[3] + dz>>)

generate_right_side(block, m, ch, c, width) ==
    \E dy \in 0 .. width - 1, dz \in 0 .. width - 1 :
        IF c[1] - 1 < 0
        THEN render_across(block, m, Shift(ch.position, 1, -Width),
                           <<Width - 1, c[2] + dy, c[3] + dz>>)
        ELSE render_against(block, ch, <<c[1] - 1, c[2] + dy, c[3] + dz>>)

Face(c, sd) == [at |-> c, side |-> sd]

Sides == {"Top", "Bottom", "Front", "Back", "Left", "Right"}

(* Block::mesh_cube: the sides that return Some, each one quad. *)
mesh_cube(block, c, m, ch, width) ==
    LET some == [Top |-> generate_top_side(block, m, ch, c, width),
                 Bottom |-> generate_bottom_side(block, m, ch, c, width),
                 Front |-> generate_front_side(block, m, ch, c, width),
                 Back |-> generate_back_side(block, m, ch, c, width),
                 Left |-> generate_left_side(block, m, ch, c, width),
                 Right |-> generate_right_side(block, m, ch, c, width)]
    IN  {Face(c, sd) : sd \in {s \in Sides : some[s]}}

(* Block::mesh_cross: two crossed quads seen from both sides, no test. *)
mesh_cross(block, c, m, ch, width) == {Face(c, "Cross")}

(* VoxelExt::mesh for Block. *)
block_mesh(block, c, m, ch, width) ==
    IF block.mesh_type = "Cube" THEN mesh_cube(block, c, m, ch, width)
    ELSE mesh_cross(block, c, m, ch, width)

(* The mesh of a chunk: the mesh parts of its elements. *)
generate_chunk_mesh(m, ch) ==
    UNION {block_mesh(e.value, e.at, m, ch, e.width) : e \in chunk_iter(ch)}

(* The chunk the meshes are made of, and the chunks in front of it (+z),   *)
(* behind it (-z) and to its right (-x).                                   *)
Home == <<0, 0, 0>>

MPositions == {Home, <<0, 0, Width>>, <<0, 0, -Width>>, <<-Width, 0, 0>>}

(* The voxels written: into the home chunk at a corner, next to it along z *)
(* and at the far end of that row; into the other chunks at the cell       *)
(* across the home chunk's corner.                                         *)
MInserts ==
    {<<Home, <<0, 0, 0>>, Stone>>, <<Home, <<0, 0, 0>>, Glass>>,
     <<Home, <<0, 0, 1>>, Stone>>, <<Home, <<0, 0, 3>>, Stone>>,
     <<<<0, 0, Width>>, <<0, 0, 0>>, Stone>>, <<<<0, 0, Width>>, <<0, 0, 0>>, Glass>>,
     <<<<0, 0, Width>>, <<0, 0, 0>>, Plant>>,
     <<<<0, 0, -Width>>, <<0, 0, 3>>, Stone>>, <<<<0, 0, -Width>>, <<0, 0, 3>>, Glass>>,
     <<<<-Width, 0, 0>>, <<3, 0, 0>>, Stone>>}

(* No shading pass has run: no buffer collected, no shade written. *)
NotShaded == [pass |-> "none", light_maps |-> <<>>, shades |-> {}]

map_new == map = {} /\ mesh = None /\ direction = <<0, -1, 0>> /\ shading = NotShaded

(* Map::insert of a new chunk: the chunk at the position is replaced. *)
map_insert(pos) ==
    /\ map' = {ch \in map : ch.position # pos} \cup {chunk_new(pos)}
    /\ UNCHANGED <<mesh, direction, shading>>
    /\ UNCHANGED <<treeVars, queueVars, volVars>>

(* Chunk::insert on the chunk of the Map at the position. *)
chunk_insert(pos, c, block) ==
    /\ map_get(map, pos) # None
    /\ LET ch == map_get(map, pos)[1]
           data == [k \in DOMAIN ch.data \cup {c} |-> IF k = c THEN block ELSE ch.data[k]]
       IN  map' = (map \ {ch}) \cup {[ch EXCEPT !.data = data]}
    /\ UNCHANGED <<mesh, direction, shading>>
    /\ UNCHANGED <<treeVars, queueVars, volVars>>

(* The mesh stage on the home chunk. *)
chunk_mesh ==
    /\ map_get(map, Home) # None
    /\ mesh' = Some(generate_chunk_mesh(map, map_get(map, Home)[1]))
    /\ UNCHANGED <<map, direction, shading>>
    /\ UNCHANGED <<treeVars, queueVars, volVars>>

MapInsert == \E pos \in MPositions : map_insert(pos)

ChunkInsert == \E call \in MInserts : chunk_insert(call[1], call[2], call[3])

ChunkMesh == chunk_mesh

(***************************************************************************)
(* The light map of one chunk, as light_map_update computes it: for each   *)
(* cell not yet memoised a ray is traced from 100 steps against the light  *)
(* direction to the cell; along it the light drops from 1.0 to 0.0 at the  *)
(* first voxel, and every cell of the chunk on the ray that has no value   *)
(* yet is given the light at that point.  1.0 is 1 and 0.0 is 0.           *)
(***************************************************************************)
RayLength == 100

Directions ==
    {<<0, -1, 0>>, <<0, 1, 0>>, <<1, 0, 0>>, <<-1, 0, 0>>, <<0, 0, 1>>, <<0, 0, -1>>}

(* Bresenham3d from light_source to the cell along an axis, both ends      *)
(* included.                                                               *)
ray(c, d) == [i \in 1 .. RayLength + 1 |->
                 <<c[1] + d[1] * (i - 1 - RayLength),
                   c[2] + d[2] * (i - 1 - RayLength),
                   c[3] + d[3] * (i - 1 - RayLength)>>]

lm_idx(c) == c[1] * Width * Width + c[2] * Width + c[3]

InChunk(c) == \A a \in 1 .. 3 : ~ (c[a] < 0 \/ c[a] >= Width)

(* A ray on which a voxel does not dim the light. *)
light_at_unoccluded(ch, points, i) == 1

(* The light when the loop is at point i: 0.0 once a point of the ray, i   *)
(* included, held a voxel.                                                 *)
light_at(ch, points, i) ==
    IF \E j \in 1 .. i : chunk_get(ch, points[j]) # None THEN 0 ELSE 1

(* The loop over the points of one ray, from point i on: a point outside   *)
(* the chunk is passed over (todo holds the ones inside), a cell without   *)
(* a value is given the light at its point.                                *)
RECURSIVE memoise(_, _, _, _)
memoise(ch, light_map, points, todo) ==
    IF todo = {} THEN light_map
    ELSE LET i == CHOOSE j \in todo : \A h \in todo : j <= h
             idx == lm_idx(points[i])
         IN  memoise(ch,
                     IF light_map[idx] = None
                     THEN [light_map EXCEPT ![idx] = Some(light_at(ch, points, i))]
                     ELSE light_map,
                     points, todo \ {i})

trace(ch, light_map, points) ==
    memoise(ch, light_map, points, {i \in 1 .. Len(points) : InChunk(points[i])})

(* The loop over the cells, in the given order. *)
RECURSIVE fill_light_map(_, _, _, _, _)
fill_light_map(ch, d, order, k, light_map) ==
    IF k > Len(order) THEN light_map
    ELSE IF light_map[lm_idx(order[k])] # None
         THEN fill_light_map(ch, d, order, k + 1, light_map)
         ELSE fill_light_map(ch, d, order, k + 1, trace(ch, light_map, ray(order[k], d)))

(* for y, for x, for z *)
CellOrder ==
    [k \in 1 .. Width * Width * Width |->
        <<((k - 1) \div Width) % Width, (k - 1) \div (Width * Width), (k - 1) % Width>>]

unwrap_or_default(o) == IF o = None THEN 0 ELSE o[1]

(* The chunk after its light map is computed and written: every cell's     *)
(* light inserted, has_light set.                                          *)
light_map_chunk(ch, d, order) ==
    LET light_map == fill_light_map(ch, d, order, 1,
                                    [i \in 0 .. Width * Width * Width - 1 |-> None])
    IN  [ch EXCEPT !.light = [c \in {order[k] : k \in 1 .. Len(order)} |->
                                 unwrap_or_default(light_map[lm_idx(c)])],
                   !.has_light = TRUE]

(* The voxels of the chunk the light map is computed for. *)
LCells == {<<1, 2, 1>>, <<3, 0, 0>>}

(* The DirectionalLight resource is given a direction. *)
set_direction(d) ==
    /\ direction' = d
    /\ UNCHANGED <<map, mesh, shading>>
    /\ UNCHANGED <<treeVars, queueVars, volVars>>

(* light_map_update on the home chunk. *)
light_map_home ==
    /\ map_get(map, Home) # None
    /\ LET ch == map_get(map, Home)[1]
       IN  map' = (map \ {ch}) \cup {light_map_chunk(ch, direction, CellOrder)}
    /\ UNCHANGED <<mesh, direction, shading>>
    /\ UNCHANGED <<treeVars, queueVars, volVars>>

LightMapInsert == map_insert(Home)

LightChunkInsert == \E c \in LCells : chunk_insert(Home, c, Stone)

SetDirection == \E d \in Directions : set_direction(d)

LightMapHome == light_map_home

(***************************************************************************)
(* shaded_light_update on the chunks of the Map.  The collect phase builds *)
(* for every UpdateLight entry the padded buffer of (Width + 2)^3 averaged *)
(* light values, x slab by x slab; the apply phase writes the six shades   *)
(* of every voxel from the buffer.  The f32 light / count is the fraction  *)
(* <<light, count>> in lowest terms.  shading holds what the pass did: how *)
(* it ended, the buffer of every chunk and the shades it wrote, each       *)
(* <<chunk position, cell, face, shade>>.                                  *)
(***************************************************************************)
East == <<Width, 0, 0>>

West == <<-Width, 0, 0>>

SPositions == {Home, East, West}

(* The chunk positions in a row, and the place of each in it. *)
SRow == <<West, Home, East>>

row_index(pos) == CHOOSE k \in DOMAIN SRow : SRow[k] = pos

(* The voxels written: at the far corner of the home chunk, and in the     *)
(* chunks beside it on top of the column that touches the home chunk.      *)
SInserts == {<<Home, <<3, 3, 3>>>>, <<West, <<3, 3, 0>>>>, <<East, <<0, 3, 0>>>>}

lm_width == Width + 2

(* i32 %: the remainder, which has the sign of the dividend. *)
rem(x, w) == x - w * TruncDiv(x, w)

(* Chunk::light: LodTree::get on the light tree, None outside the chunk. *)
chunk_light(ch, c) ==
    IF InChunk(c) /\ c \in DOMAIN ch.light THEN Some(ch.light[c]) ELSE None

(* sx, sy, sz *)
side_of(x) == IF x < 0 THEN -1 ELSE IF x >= Width THEN 1 ELSE 0

(* The worker of the slab returns: a neighbour has no light yet. *)
Returns == <<"return", "neighbour", "without light">>

(* The neighbour a sample position outside the chunk is read from. *)
neighbour_of(m, ch, p) ==
    map_get(m, <<ch.position[1] + Width * side_of(p[1]),
                 ch.position[2] + Width * side_of(p[2]),
                 ch.position[3] + Width * side_of(p[3])>>)

(* One sample of the 3x3x3 box: the light at position p of the chunk, or   *)
(* of the neighbour p lies in.                                             *)
light_sample(m, ch, p) ==
    IF InChunk(p) THEN chunk_light(ch, p)
    ELSE LET neighbour == neighbour_of(m, ch, p)
         IN  IF neighbour = None THEN None
             ELSE IF ~ neighbour[1].has_light THEN Returns
             ELSE chunk_light(neighbour[1],
                              <<rem(p[1], Width), rem(p[2], Width), rem(p[3], Width)>>)

(* A sequence held as a Vec: its elements are values. *)
Vec(f) == f \o <<>>

(* The positions the samples of a chunk's buffer are at, -2 .. Width + 1   *)
(* on each axis, and what each one reads; nothing is written while the     *)
(* buffers are built, so every read of a position gives the same.          *)
sample_width == Width + 4

sample_idx(p) ==
    (p[1] + 2) * sample_width * sample_width + (p[2] + 2) * sample_width + (p[3] + 2) + 1

sample_cell(k) ==
    <<(k - 1) \div (sample_width * sample_width) - 2,
      (((k - 1) \div sample_width) % sample_width) - 2,
      ((k - 1) % sample_width) - 2>>

samples_of(m, ch) ==
    Vec([k \in 1 .. sample_width * sample_width * sample_width |->
            light_sample(m, ch, sample_cell(k))])

(* for lx, for ly, for lz in -range..=range *)
OffsetSeq == [k \in 1 .. 27 |-> <<(k - 1) \div 9 - 1, (((k - 1) \div 3) % 3) - 1, ((k - 1) % 3) - 1>>]

RECURSIVE Gcd(_, _)
Gcd(a, b) == IF b = 0 THEN a ELSE Gcd(b, a % b)

Fraction(l, n) == LET g == Gcd(l, n) IN <<l \div g, n \div g>>

(* The loop over the 27 samples of one cell of the buffer, from sample k   *)
(* on: the mean of the samples that gave a light, 0.0 without any.         *)
RECURSIVE box_from(_, _, _, _, _)
box_from(samples, c, k, light, count) ==
    IF k > 27 THEN Fraction(light, IF count = 0 THEN 1 ELSE count)
    ELSE LET sample == samples[sample_idx(Plus(c, OffsetSeq[k]))]
         IN  IF sample = Returns THEN Returns
             ELSE IF sample = None THEN box_from(samples, c, k + 1, light, count)
             ELSE box_from(samples, c, k + 1, light + sample[1], count + 1)

cell_light(samples, c) == box_from(samples, c, 1, 0, 0)

(* for y, for z in -1..lm_width - 1 *)
slab_cells(x) ==
    [k \in 1 .. lm_width * lm_width |->
        <<x, (k - 1) \div lm_width - 1, ((k - 1) % lm_width) - 1>>]

(* What the worker of slab x sends, from cell k on: the cells up to the    *)
(* one it returns at.                                                      *)
RECURSIVE slab_from(_, _, _, _)
slab_from(samples, x, k, sent) ==
    IF k > lm_width * lm_width THEN sent
    ELSE LET light == cell_light(samples, slab_cells(x)[k])
         IN  IF light = Returns THEN sent
             ELSE slab_from(samples, x, k + 1, Append(sent, <<slab_cells(x)[k], light>>))

slab(samples, x) == slab_from(samples, x, 1, <<>>)

(* What the workers of the chunk send: slab x is at x + 2. *)
slabs_of(m, ch) ==
    LET samples == samples_of(m, ch)
    IN  Vec([k \in 1 .. lm_width |-> slab(samples, k - 2)])

(* rx.try_iter().collect(): what the slabs sent, in the order the workers  *)
(* ran.                                                                    *)
RECURSIVE received(_, _, _)
received(slabs, arrival, k) ==
    IF k > Len(arrival) THEN <<>>
    ELSE slabs[arrival[k] + 2] \o received(slabs, arrival, k + 1)

(* The cells of the buffer in the order of their coordinates. *)
KeyOrder ==
    [k \in 1 .. lm_width * lm_width * lm_width |->
        <<(k - 1) \div (lm_width * lm_width) - 1,
          (((k - 1) \div lm_width) % lm_width) - 1,
          ((k - 1) % lm_width) - 1>>]

(* light_map.sort_unstable_by_key(|(coords, _)| *coords) *)
sort_unstable_by_key(entries) ==
    LET keys == {entries[i][1] : i \in DOMAIN entries}
        at == [key \in keys |-> CHOOSE i \in DOMAIN entries : entries[i][1] = key]
        ordered == SelectSeq(KeyOrder, LAMBDA key : key \in keys)
    IN  [i \in DOMAIN ordered |-> entries[at[ordered[i]]]]

(* The buffer of one chunk: the values of the sorted entries. *)
collect_light_map(slabs, arrival) ==
    LET sorted == sort_unstable_by_key(received(slabs, arrival, 1))
    IN  Vec([i \in DOMAIN sorted |-> sorted[i][2]])

Faces == <<"Top", "Bottom", "Front", "Back", "Left", "Right">>

(* The cell of the padded buffer a face reads, from the voxel's cell. *)
face_shift(face) ==
    CASE face = "Top" -> <<1, 2, 1>>
      [] face = "Bottom" -> <<1, 0, 1>>
      [] face = "Front" -> <<1, 1, 2>>
      [] face = "Back" -> <<1, 1, 0>>
      [] face = "Left" -> <<2, 1, 1>>
      [] face = "Right" -> <<0, 1, 1>>

face_normal(face) ==
    CASE face = "Top" -> <<0, 1, 0>>
      [] face = "Bottom" -> <<0, -1, 0>>
      [] face = "Front" -> <<0, 0, 1>>
      [] face = "Back" -> <<0, 0, -1>>
      [] face = "Left" -> <<1, 0, 0>>
      [] face = "Right" -> <<-1, 0, 0>>

shade_idx(c, face) ==
    LET t == face_shift(face)
    IN  (c[1] + t[1]) * lm_width * lm_width + (c[2] + t[2]) * lm_width + (c[3] + t[3])

(* light * dir.dot(normal).max(0.0).min(1.0), dir = -direction: the light  *)
(* for the face turned to the light, 0.0 for the others (the intensity and *)
(* the ambient term are the same for every face).                          *)
face_shade(light, d, face) ==
    IF face_normal(face) = <<-d[1], -d[2], -d[3]>> THEN light ELSE <<0, 1>>

(* chunk.iter_mut(): the voxels in the order of their slots, and for each  *)
(* the six set_shade calls.                                                *)
shade_writes(ch) ==
    LET voxels == SelectSeq([k \in 1 .. Width * Width * Width |-> array_index(k - 1, depth)],
                            LAMBDA c : c \in DOMAIN ch.data)
    IN  [k \in 1 .. 6 * Len(voxels) |-> <<voxels[(k - 1) \div 6 + 1], Faces[((k - 1) % 6) + 1]>>]

(* The apply phase on one chunk: light_map[idx] panics past the end of the *)
(* buffer; the shades before it are written.                               *)
apply_chunk(ch, light_map, d) ==
    LET writes == shade_writes(ch)
        past == {k \in DOMAIN writes : shade_idx(writes[k][1], writes[k][2]) >= Len(light_map)}
        done == IF past = {} THEN Len(writes)
                ELSE (CHOOSE k \in past : \A h \in past : k <= h) - 1
    IN  [panics |-> past # {},
         shades |-> {<<ch.position, writes[k][1], writes[k][2],
                       face_shade(light_map[shade_idx(writes[k][1], writes[k][2]) + 1],
                                  d, writes[k][2])>> : k \in 1 .. done}]

(* The apply phase over the UpdateLight entries, in the order the HashMap  *)
(* gives them, up to the first panic.                                      *)
RECURSIVE apply_from(_, _, _, _, _)
apply_from(m, light_maps, order, k, d) ==
    IF k > Len(order) THEN [pass |-> "ok", shades |-> {}]
    ELSE LET one == apply_chunk(map_get(m, order[k])[1], light_maps[row_index(order[k])], d)
         IN  IF one.panics THEN [pass |-> "panic", shades |-> one.shades]
             ELSE LET rest == apply_from(m, light_maps, order, k + 1, d)
                  IN  [pass |-> rest.pass, shades |-> one.shades \cup rest.shades]

(* The workers' results for every UpdateLight entry, by place in the row. *)
slabs_of_all(m, todo) ==
    Vec([k \in DOMAIN SRow |->
            IF SRow[k] \in todo THEN slabs_of(m, map_get(m, SRow[k])[1]) ELSE <<>>])

(* The collect phase: the sorted buffer of every UpdateLight entry. *)
collect_light_maps(slabs, arrival) ==
    Vec([k \in DOMAIN SRow |->
            IF slabs[k] = <<>> THEN <<>> ELSE collect_light_map(slabs[k], arrival)])

(* One pass: the shades are applied from the collected buffers. *)
shade_outcome(m, light_maps, order, d) ==
    LET applied == apply_from(m, light_maps, order, 1, d)
    IN  [pass |-> applied.pass,
         light_maps |-> [pos \in {order[k] : k \in DOMAIN order} |->
                            light_maps[row_index(pos)]],
         shades |-> applied.shades]

(* The orders the workers of the x slabs may finish in. *)
ArrivalOrders == {<<-1, 0, 1, 2, 3, 4>>, <<4, 3, 2, 1, 0, -1>>, <<2, -1, 4, 0, 3, 1>>}

(* The orders the HashMap may give the entries in. *)
ChunkOrders(todo) ==
    {order \in [1 .. Cardinality(todo) -> todo] : {order[k] : k \in DOMAIN order} = todo}

(* light_map_update for the UpdateLightMap entry of the chunk at pos. *)
light_map_at(pos) ==
    /\ map_get(map, pos) # None
    /\ LET ch == map_get(map, pos)[1]
       IN  map' = (map \ {ch}) \cup {light_map_chunk(ch, direction, CellOrder)}
    /\ updates' = insert_pushed_over(remove_all(updates, {pos}), {pos}, "UpdateLight")
    /\ UNCHANGED <<mesh, direction, shading>>
    /\ UNCHANGED <<chunks, has_light, shaded, qstatus, qlast>>
    /\ UNCHANGED <<treeVars, volVars>>

(* One pass of shaded_light_update over the Map: the entries are replaced  *)
(* by UpdateMesh after the apply phase, which a panic does not reach.      *)
shade_pass(light_maps, order) ==
    LET todo == Pending(updates, "UpdateLight")
    IN  /\ todo # {}
        /\ order \in ChunkOrders(todo)
        /\ LET o == shade_outcome(map, light_maps, order, direction)
           IN  /\ shading' = o
               /\ updates' = IF o.pass = "ok"
                             THEN insert_pushed_over(remove_all(updates, todo), todo, "UpdateMesh")
                             ELSE updates
        /\ UNCHANGED <<map, mesh, direction>>
        /\ UNCHANGED <<chunks, has_light, shaded, qstatus, qlast>>
        /\ UNCHANGED <<treeVars, volVars>>

(* A run: chunks are made and filled, their light maps computed, and one   *)
(* shading pass ends it.                                                   *)
ShadeMapInsert ==
    \E pos \in SPositions :
        shading.pass = "none" /\ map_get(map, pos) = None /\ map_insert(pos)

ShadeChunkInsert ==
    \E call \in SInserts :
        /\ shading.pass = "none"
        /\ map_get(map, call[1]) # None /\ ~ map_get(map, call[1])[1].has_light
        /\ chunk_insert(call[1], call[2], Stone)

ShadeLightMap ==
    \E pos \in SPositions :
        /\ shading.pass = "none"
        /\ map_get(map, pos) # None /\ ~ map_get(map, pos)[1].has_light
        /\ light_map_at(pos)

ShadePass ==
    /\ shading.pass = "none"
    /\ \A pos \in Pending(updates, "UpdateLight") : map_get(map, pos) # None
    /\ \E slabs \in {slabs_of_all(map, Pending(updates, "UpdateLight"))} :
           \E arrival \in ArrivalOrders :
               \E light_maps \in {collect_light_maps(slabs, arrival)} :
                   \E order \in ChunkOrders(Pending(updates, "UpdateLight")) :
                       shade_pass(light_maps, order)

Init == new /\ setup /\ vt_new /\ map_new

Next == Insert \/ Remove \/ GetMut \/ Fill \/ Merge \/ SetLod

(* The calls on one LodTree. *)
Spec == Init /\ [][Next]_vars

NextStages ==
    \/ TerrainGeneration
    \/ TerrainGenerationIdle
    \/ LightMapUpdate
    \/ ShadedLightUpdate
    \/ ChunkUpdate

(* The stage passes on the queue, in any order. *)
SpecStages == Init /\ [][NextStages]_vars

(* The app runs every stage in every frame (add_system_to_stage, run), so  *)
(* each pass is run again and again; light_map_update and                  *)
(* shaded_light_update share stage::UPDATE, whose order is not fixed.      *)
SpecStagesFair ==
    /\ SpecStages
    /\ WF_vars(TerrainGeneration \/ TerrainGenerationIdle)
    /\ WF_vars(LightMapUpdate)
    /\ WF_vars(ShadedLightUpdate)
    /\ WF_vars(ChunkUpdate)

NextVol == VtInsert \/ VtRemove

(* The calls on one VolumetricTree. *)
SpecVol == Init /\ [][NextVol]_vars

NextMesh == MapInsert \/ ChunkInsert \/ ChunkMesh

(* Chunks and voxels put into a Map, and the home chunk meshed. *)
SpecMesh == Init /\ [][NextMesh]_vars

NextShade == ShadeMapInsert \/ ShadeChunkInsert \/ ShadeLightMap \/ ShadePass

(* The shading pass on a Map of up to three chunks in a row. *)
SpecShade == Init /\ [][NextShade]_vars

NextLight == LightMapInsert \/ LightChunkInsert \/ SetDirection \/ LightMapHome

(* One chunk, its voxels, the light direction and the chunk's light map. *)
SpecLight == Init /\ [][NextLight]_vars

(***************************************************************************)
(* A chunk's tree as the generator builds it: values put at the first cell *)
(* of each of the eight 2x2x2 blocks of the grid, and merge.               *)
(***************************************************************************)
BCoords == {<<x, y, z>> : x \in {0, 2}, y \in {0, 2}, z \in {0, 2}}

BuildInsert == \E c \in BCoords : insert(c, 1)

NextBuild == BuildInsert \/ Merge

(* Inserts into the eight blocks of one LodTree, and merges. *)
SpecBuild == Init /\ [][NextBuild]_vars

(***************************************************************************)
(* elements_mut, consumed to its end by a caller that writes nothing       *)
(* through the references it is given.  For every slot, in array order:    *)
(* the Value node the slot's chain ends at gets width 1, the slot itself   *)
(* becomes Value(clone, 1), and a slot with a value yields an ElementMut   *)
(* of width 1 at the slot's coordinate.                                    *)
(***************************************************************************)
ElementMut(p, w, v) == [x |-> p[1], y |-> p[2], z |-> p[3], width |-> w, value |-> v]

(* A step that leaves the slot as it is: only the node the chain ends at *)
(* is written.                                                           *)
elements_mut_slot_keeps_ref(arr, i) ==
    LET t == Resolve(arr, i)
    IN  [arr EXCEPT ![t].w = 1]

elements_mut_slot(arr, i) ==
    LET t == Resolve(arr, i)
        arr1 == [arr EXCEPT ![t].w = 1]
        value == arr1[t].val
    IN  [arr1 EXCEPT ![i] = Value(value, 1)]

(* The walk over the slots: <<array, status>>. *)
RECURSIVE elements_mut_from(_, _)
elements_mut_from(arr, i) ==
    IF i >= capacity THEN <<arr, "ok">>
    ELSE IF Resolve(arr, i) = -1 THEN <<arr, "hang">>
    ELSE elements_mut_from(elements_mut_slot(arr, i), i + 1)

elements_mut_impl(arr) == elements_mut_from(arr, 0)

(* The items of a walk that came to its end, in array order.  The clone    *)
(* written into slot i is what the item of slot i refers to, and no later  *)
(* step writes a value: the walk's array holds the values yielded.         *)
elements_mut_items(arr) ==
    LET final == elements_mut_impl(arr)[1]
        kept == SelectSeq([k \in 1 .. capacity |-> k - 1],
                          LAMBDA i : final[i].val # None)
    IN  [k \in 1 .. Len(kept) |->
            ElementMut(array_index(kept[k], depth), 1, final[kept[k]].val[1])]

(* last: the items the iterator yielded and the number of Ref nodes it     *)
(* found in the array.                                                     *)
elements_mut ==
    /\ status = "ok"
    /\ LET o == elements_mut_impl(array)
       IN  /\ array' = o[1]
           /\ status' = o[2]
           /\ last' = [inb |-> TRUE,
                       items |-> IF o[2] = "ok" THEN elements_mut_items(array) ELSE <<>>,
                       refs |-> Cardinality({i \in Slots : array[i].k = "Ref"})]
    /\ UNCHANGED <<lod, len>>
    /\ UNCHANGED <<queueVars, volVars, chunkVars>>

ElementsMut == elements_mut

NextIter == Insert \/ Remove \/ Merge \/ ElementsMut

(* A LodTree under insert, remove, merge and elements_mut. *)
SpecIter == Init /\ [][NextIter]_vars

(***************************************************************************)
(* Saving and loading: RleTree::with_tree over opt_elements, and           *)
(* LodTree::from(RleTree).                                                 *)
(***************************************************************************)
OptElement(p, w, v) == [x |-> p[1], y |-> p[2], z |-> p[3], width |-> w, value |-> v]

(* opt_elements: every slot, in array order, resolved; a node met before   *)
(* (set.contains(&idx)) yields nothing.                                    *)
opt_elements(arr) ==
    LET r == [i \in Slots |-> Resolve(arr, i)]
        firsts == SelectSeq([k \in 1 .. capacity |-> k - 1],
                            LAMBDA i : \A j \in 0 .. i - 1 : r[j] # r[i])
    IN  [k \in 1 .. Len(firsts) |->
            LET idx == r[firsts[k]]
            IN  OptElement(array_index(idx, depth), arr[idx].w, arr[idx].val)]

(* impl SerDePartialEq<Option<T>> for Option<U>: the values compared when *)
(* both are Some, and true (unwrap_or(true)) when either is None.          *)
serde_eq(a, b) == IF a # None /\ b # None THEN a[1] = b[1] ELSE TRUE

(* rle_tree::Node *)
Run(v, n) == [value |-> v, len |-> n]

RECURSIVE with_tree_from(_, _, _)
with_tree_from(es, k, runs) ==
    IF k > Len(es) THEN runs
    ELSE LET elem == es[k]
             n == Len(runs)
             vol == elem.width * elem.width * elem.width
         IN  IF n > 0 /\ serde_eq(runs[n].value, elem.value)
             THEN with_tree_from(es, k + 1, [runs EXCEPT ![n].len = @ + vol])
             ELSE with_tree_from(es, k + 1, Append(runs, Run(elem.value, vol)))

with_tree(arr) == with_tree_from(opt_elements(arr), 1, <<>>)

is_power_of_two(n) == n > 0 /\ Pow(2, Log2(n)) = n

next_power_of_two(n) == IF is_power_of_two(n) THEN n ELSE Pow(2, Log2(n) + 1)

(* usize::cbrt: the integer cube root. *)
cbrt(n) == CHOOSE k \in 0 .. n : k * k * k <= n /\ (k + 1) * (k + 1) * (k + 1) > n

(* The lengths a run is cut into: for i from log2(next) - 1 down to 0,     *)
(* i % 3 = 0, parts of 1 << i while they fit.                              *)
RECURSIVE run_parts(_, _)
run_parts(remaining, i) ==
    IF i < 0 THEN <<>>
    ELSE IF i % 3 # 0 THEN run_parts(remaining, i - 1)
    ELSE LET part == Pow(2, i)
         IN  IF part <= remaining THEN <<part>> \o run_parts(remaining - part, i)
             ELSE run_parts(remaining, i - 1)

(* The nodes pushed for one part: a Value of the part's width and Refs to  *)
(* it.                                                                     *)
part_nodes(v, part, idx) ==
    [k \in 1 .. part |-> IF k = 1 THEN Value(v, cbrt(part)) ELSE Ref(idx)]

RECURSIVE parts_nodes(_, _, _)
parts_nodes(v, parts, idx) ==
    IF parts = <<>> THEN <<>>
    ELSE part_nodes(v, Head(parts), idx)
            \o parts_nodes(v, Tail(parts), idx + Head(parts))

run_nodes(node, idx) ==
    IF is_power_of_two(node.len) /\ Log2(node.len) % 3 = 0
    THEN part_nodes(node.value, node.len, idx)
    ELSE parts_nodes(node.value,
                     run_parts(node.len, Log2(next_power_of_two(node.len)) - 1), idx)

RECURSIVE from_runs(_, _, _)
from_runs(runs, k, nodes) ==
    IF k > Len(runs) THEN nodes
    ELSE from_runs(runs, k + 1, nodes \o run_nodes(runs[k], Len(nodes)))

RECURSIVE runs_len(_, _)
runs_len(runs, k) ==
    IF k > Len(runs) THEN 0
    ELSE (IF runs[k].value = None THEN 0 ELSE runs[k].len) + runs_len(runs, k + 1)

(* impl From<RleTree<T>> for LodTree<T>; the array is indexed from 0. *)
lod_tree_from(runs) ==
    LET nodes == from_runs(runs, 1, <<>>)
    IN  [lod |-> 0,
         depth |-> Log2(cbrt(Len(nodes))),
         len |-> runs_len(runs, 1),
         array |-> [i \in 0 .. Len(nodes) - 1 |-> nodes[i + 1]]]

(***************************************************************************)
(* Helpers of the properties.                                              *)
(***************************************************************************)
InCells == {c \in Coords : InBounds(c)}

HasRef(arr) == \E i \in Slots : arr[i].k = "Ref"

SlotOf(c) == depth_index(c, depth)

UnitCells(u) ==
    {<<u[1] + ix, u[2] + iy, u[3] + iz>> :
        ix \in 0 .. UnitWidth - 1, iy \in 0 .. UnitWidth - 1, iz \in 0 .. UnitWidth - 1}

Fresh == [i \in Slots |-> Value(None, 1)]

Occupied(arr) == {c \in AllCells : get_lod(arr, 0, c) # None}

(* The cells the calls of the model write, with the first cell of the grid,  *)
(* a sibling of it, the first cell of another block and one more cell of    *)
(* the written block.                                                      *)
ProbeCells == InCells \cup {<<0, 0, 0>>, <<1, 1, 1>>, <<2, 0, 0>>, <<3, 3, 2>>}

(***************************************************************************)
(* C1.  Read your write at lod 0: on every tree the calls can build, an    *)
(* insert(c, v) with c in bounds leaves a tree whose get(c) is v, and a    *)
(* remove(c) leaves one whose get(c) is None and whose contains_key(c) is  *)
(* false.                                                                  *)
(***************************************************************************)
C1_ReadYourWrite ==
    status = "ok" =>
        \A c \in ProbeCells :
            /\ \A v \in Values :
                  LET o == insert_impl(array, c, v)
                  IN  o[2] = "ok" /\ get_lod(o[1], 0, c) = Some(v)
            /\ LET o == remove_impl(array, c)
               IN  /\ o[2] = "ok"
                   /\ get_lod(o[1], 0, c) = None
                   /\ ~contains_key(o[1], c)

(* The tree after an insert into a cell of a merged block: the cell holds  *)
(* its own value, another than the block's, and cells of the block are     *)
(* still Refs to the block's first slot.                                   *)
C1_Witness ==
    /\ status = "ok"
    /\ last.inb
    /\ \E u \in Units, c \in InCells \ Units, v \in Values :
          /\ c \in UnitCells(u)
          /\ array[SlotOf(c)] = Value(Some(v), 1)
          /\ array[SlotOf(u)].k = "Value"
          /\ array[SlotOf(u)].val # Some(v)
          /\ \E c2 \in UnitCells(u) : array[SlotOf(c2)] = Ref(SlotOf(u))
          /\ get_lod(array, 0, c) = Some(v)

(***************************************************************************)
(* C2.  Writes are local: on every tree the calls can build, an            *)
(* insert(c, v) or remove(c) with c in bounds leaves get(c2) at lod 0 as   *)
(* it was for every other cell c2 of the grid.                             *)
(***************************************************************************)
C2_WritesAreLocal ==
    status = "ok" =>
        \A c \in InCells :
            \A o \in {remove_impl(array, c)} \cup {insert_impl(array, c, v) : v \in Values} :
                \A c2 \in AllCells \ {c} :
                    get_lod(o[1], 0, c2) = get_lod(array, 0, c2)

(***************************************************************************)
(* C3.  Merge structural sharing: merge() of a fresh tree in which the     *)
(* eight cells of an aligned 2x2x2 block were given the same value leaves  *)
(* every cell of the block resolving to the block's first slot, a Value    *)
(* node of width 2; elements() holds the block once, as one element of     *)
(* width 2 at the block's minimum corner, and position(value) is that      *)
(* corner.                                                                 *)
(***************************************************************************)
FreshFilled(u, v) == fill_impl(Fresh, u, v, 0)[1]

C3_MergeSharing ==
    \A u \in Units, v \in Values :
        (status = "ok" /\ array = FreshFilled(u, v))
            => \A o \in merge_impl(array) :
                  /\ o[2] = "ok"
                  /\ \A c \in UnitCells(u) : Resolve(o[1], SlotOf(c)) = SlotOf(u)
                  /\ o[1][SlotOf(u)] = Value(Some(v), 2)
                  /\ elements(o[1], 0) = <<Element(u[1], u[2], u[3], 2, v)>>
                  /\ position(o[1], v) = Some(u)

(* The tree right after that merge. *)
C3_Witness ==
    /\ status = "ok"
    /\ \E u \in Units, v \in Values :
          /\ array[SlotOf(u)] = Value(Some(v), 2)
          /\ \A c \in UnitCells(u) \ {u} : array[SlotOf(c)] = Ref(SlotOf(u))
          /\ \A i \in Slots : Resolve(array, i) # SlotOf(u) => array[Resolve(array, i)].val = None

(***************************************************************************)
(* C4.  Merge is conditional: at every level of merge(), a group of eight  *)
(* sibling slots is collapsed (the seven slots after the first become Ref  *)
(* to the pivot, the pivot stays a Value and its width doubles) when all   *)
(* eight resolve to nodes of equal value and equal width and the value is  *)
(* empty or can merge; any other group is left exactly as it was.          *)
(***************************************************************************)
Pivots(d) == {i \in LevelSlots(d) : PivotSlot(i, d) = i}

GroupSlots(p, d) == {p + k * skip_of(d) : k \in 0 .. 7}

EightAgree(arr, p, d) ==
    LET first == arr[Resolve(arr, p)]
    IN  /\ first.val = None \/ can_merge(first.val[1])
        /\ \A i \in GroupSlots(p, d) :
              /\ arr[Resolve(arr, i)].val = first.val
              /\ arr[Resolve(arr, i)].w = first.w

Collapsed(arr, arr2, p, d) ==
    LET P == Resolve(arr, p)
    IN  /\ \A i \in GroupSlots(p, d) \ {p} : arr2[i] = Ref(P)
        /\ arr2[P].k = "Value"
        /\ arr2[P].w = 2 * arr[P].w

GroupUntouched(arr, arr2, p, d) == \A i \in GroupSlots(p, d) : arr2[i] = arr[i]

LevelBothBuilds(arr, d) ==
    LET ents == Merges(arr, LevelResolved(arr, d), d)
    IN  level_outcomes(arr, ents, TRUE) \cup level_outcomes(arr, ents, FALSE)

ConditionalAt(arr, d) ==
    \A o \in LevelBothBuilds(arr, d), p \in Pivots(d) :
        IF EightAgree(arr, p, d) THEN Collapsed(arr, o[1], p, d)
        ELSE GroupUntouched(arr, o[1], p, d)

C4_MergeIsConditional ==
    status = "ok" =>
        /\ ConditionalAt(array, 1)
        /\ \A o \in LevelBothBuilds(array, 1) :
              o[2] = "ok" => ConditionalAt(o[1], 2)

(***************************************************************************)
(* C5.  Ref-chain invariant: following the Ref links from any slot of the  *)
(* array ends at a Value node; no Ref points to itself and no Refs form a  *)
(* cycle.                                                                  *)
(***************************************************************************)
C5_NoRefCycle == \A i \in Slots : Resolve(array, i) # -1

(***************************************************************************)
(* C6.  Width invariant: every Value node's width is a power of two from 1 *)
(* to the grid width, and exactly width^3 slots, the node's own included,  *)
(* resolve to it.                                                          *)
(***************************************************************************)
PowersOfTwo == {Pow(2, e) : e \in 0 .. depth}

C6_WidthInvariant ==
    status = "ok" =>
        \A i \in Slots :
            array[i].k = "Value" =>
                /\ array[i].w \in PowersOfTwo
                /\ Cardinality({j \in Slots : Resolve(array, j) = i})
                      = array[i].w * array[i].w * array[i].w

(***************************************************************************)
(* C7.  len() is the number of occupied unit cells, and is_empty() is true *)
(* exactly when no cell is occupied.                                       *)
(***************************************************************************)
is_empty == len = 0

C7_LenCountsOccupied ==
    status = "ok" =>
        /\ len = Cardinality(Occupied(array))
        /\ is_empty <=> Occupied(array) = {}

(* Where neither of merge's two checks has anything to fire on, C4 holds:  *)
(* the groups C4 fails on are the ones C19 is about.                       *)
ChecksQuiet(arr, d) ==
    /\ \A P \in DOMAIN Merges(arr, LevelResolved(arr, d), d) :
          Merges(arr, LevelResolved(arr, d), d)[P].n < 8
    /\ \A o \in LevelBothBuilds(arr, d) : o[2] = "ok"

ConditionalWhereQuiet ==
    status = "ok" =>
        /\ ChecksQuiet(array, 1) => ConditionalAt(array, 1)
        /\ \A o \in LevelBothBuilds(array, 1) :
              (o[2] = "ok" /\ ChecksQuiet(o[1], 2)) => ConditionalAt(o[1], 2)

(***************************************************************************)
(* C8.  LOD averaging: with lod = L > 0, get(c) for c in bounds is the     *)
(* average of the values of the occupied unit cells of the aligned cube of *)
(* side 2^L that holds c, every cell counted once, and None when the cube  *)
(* has no occupied cell.  For i32 the average is the sum divided by the    *)
(* count, truncated toward zero.                                           *)
(***************************************************************************)
CubeCells(c, l) ==
    {c2 \in AllCells : \A k \in 1 .. 3 : c2[k] \div Pow(2, l) = c[k] \div Pow(2, l)}

RECURSIVE SumCells(_, _)
SumCells(arr, S) ==
    IF S = {} THEN 0
    ELSE LET c == CHOOSE x \in S : TRUE
         IN  get_lod(arr, 0, c)[1] + SumCells(arr, S \ {c})

OccupiedIn(arr, c, l) == {c2 \in CubeCells(c, l) : get_lod(arr, 0, c2) # None}

C8_LodAverage ==
    (status = "ok" /\ lod > 0) =>
        \A c \in ProbeCells :
            LET occ == OccupiedIn(array, c, lod)
            IN  get(c) = IF occ = {} THEN None
                         ELSE Some(TruncDiv(SumCells(array, occ), Cardinality(occ)))

(* A 2x2x2 block that holds 0 four times and 1 four times. *)
HalfAndHalf(arr, c) ==
    /\ Cardinality(OccupiedIn(arr, c, 1)) = 8
    /\ Cardinality({c2 \in CubeCells(c, 1) : get_lod(arr, 0, c2) = Some(1)}) = 4
    /\ Cardinality({c2 \in CubeCells(c, 1) : get_lod(arr, 0, c2) = Some(0)}) = 4

C8_Witness ==
    /\ status = "ok"
    /\ lod = 1
    /\ HalfAndHalf(array, <<2, 2, 2>>)
    /\ get(<<3, 3, 3>>) = Some(0)
    /\ get(<<0, 0, 0>>) = None

(* C8 as stated: the result over {0,0,0,0,1,1,1,1} is the arithmetic mean  *)
(* m of the eight values, 8 * m = 0+0+0+0+1+1+1+1.                         *)
C8_ArithmeticMean ==
    /\ C8_LodAverage
    /\ (status = "ok" /\ lod = 1) =>
          \A c \in ProbeCells :
              HalfAndHalf(array, c) =>
                  /\ get(c) # None
                  /\ 8 * get(c)[1] = SumCells(array, CubeCells(c, 1))

(***************************************************************************)
(* C9.  Out of bounds is a no-op: insert, remove, get and get_mut with a   *)
(* coordinate that has an axis outside 0 .. width-1 return None and leave  *)
(* every slot of the array as it was.                                      *)
(***************************************************************************)
OutProbe ==
    {<<-1, 2, 2>>, <<2, -1, 2>>, <<2, 2, -1>>, <<Width, 2, 2>>, <<2, Width, 2>>,
     <<3, 3, Width>>, <<-1, -1, -1>>, <<Width, Width, Width>>}

C9_OutOfBoundsNoOp ==
    status = "ok" =>
        \A c \in OutProbe :
            /\ \A v \in Values :
                  /\ insert_impl(array, c, v) = <<array, "ok">>
                  /\ insert_ret(array, c, v) = None
            /\ remove_impl(array, c) = <<array, "ok">>
            /\ remove_ret(array, c) = None
            /\ get_mut_impl(array, c) = <<array, "ok">>
            /\ get_mut_ret(array, c) = None
            /\ \A l \in 0 .. MaxLod : get_lod(array, l, c) = None

(* A call was just made with a coordinate out of bounds, on a tree with a *)
(* merged block.                                                           *)
C9_Witness ==
    /\ status = "ok"
    /\ ~last.inb
    /\ HasRef(array)
    /\ Occupied(array) # {}

(***************************************************************************)
(* C10.  No downgrade in the update queue: in every order of the stage     *)
(* passes, a pass never leaves at a coordinate an entry of strictly lower  *)
(* priority than the entry the coordinate held before the pass; and a      *)
(* terrain_generation pass that generates the chunk at c leaves every      *)
(* UpdateLight and UpdateMesh entry held next to c as it is.               *)
(***************************************************************************)
C10_NoDowngrade ==
    [][/\ \A n \in DOMAIN updates \cap DOMAIN updates' :
             priority(updates'[n]) >= priority(updates[n])
       /\ \A c \in QCoords :
             terrain_generation(c) =>
                 \A n \in Around(c) \cap (Pending(updates, "UpdateLight")
                                            \cup Pending(updates, "UpdateMesh")) :
                     n \in DOMAIN updates' /\ updates'[n] = updates[n]]_vars

(* A chunk was just generated next to a coordinate holding UpdateMesh and  *)
(* next to one holding UpdateLight.                                        *)
C10_Witness ==
    /\ qstatus = "ok"
    /\ qlast.pass = "terrain_generation"
    /\ \E c \in qlast.at :
          /\ c \in chunks
          /\ Around(c) \cap Pending(updates, "UpdateMesh") # {}
          /\ Around(c) \cap Pending(updates, "UpdateLight") # {}

GenerationPropagates ==
    [][\A c \in QCoords :
          terrain_generation(c) =>
              \A n \in Around(c) \cup {c} :
                  /\ n \in DOMAIN updates'
                  /\ (n = c \/ n \notin DOMAIN updates) => updates'[n] = "UpdateLightMap"]_vars

C12_NeighbourPropagation ==
    [][/\ \A c \in QCoords :
             terrain_generation(c) =>
                 \A n \in Around(c) \cup {c} :
                     /\ n \in DOMAIN updates'
                     /\ (n = c \/ n \notin DOMAIN updates) => updates'[n] = "UpdateLightMap"
       /\ light_map_update =>
             \A c \in Pending(updates, "UpdateLightMap") \cap chunks :
                 \A n \in Around(c) \cup {c} :
                     /\ n \in DOMAIN updates'
                     /\ priority(updates'[n]) >= priority("UpdateLight")]_vars

(***************************************************************************)
(* C13.  Dependency wait in shading: a shaded_light_update pass that meets *)
(* an UpdateLight entry for a chunk c next to a chunk that has no light    *)
(* yet returns, writes none of c's shades and leaves c's entry             *)
(* UpdateLight.                                                            *)
(***************************************************************************)
C13_DependencyWait ==
    [][\A p \in QCoords \cup {<<>>}, b \in SUBSET QCoords :
          shaded_light_update(p, b) =>
              \A c \in Pending(updates, "UpdateLight") :
                  ShortBuffer(c) =>
                      /\ qstatus' = "ok"
                      /\ c \in shaded' <=> c \in shaded
                      /\ c \in DOMAIN updates' /\ updates'[c] = "UpdateLight"]_vars

(***************************************************************************)
(* C19.  Merge's defensive checks never fire: on every tree the calls can  *)
(* build, no call has panicked, and at no level of a merge() does an entry *)
(* of merges collect 8 or more indices or the pivot slot hold a Ref when   *)
(* its width is to be doubled.                                             *)
(***************************************************************************)
C19_ChecksNeverFire ==
    /\ status \notin {"assert", "unreachable"}
    /\ status = "ok" =>
          /\ ChecksQuiet(array, 1)
          /\ \A o \in LevelBothBuilds(array, 1) : o[2] = "ok" => ChecksQuiet(o[1], 2)

(***************************************************************************)
(* C20.  elements() partitions the occupied cells: at lod 0 the cubes of   *)
(* the elements are pairwise disjoint, every occupied unit cell lies in    *)
(* one of them, and every cell of a cube holds the cube's value.           *)
(***************************************************************************)
ElemCells(e) ==
    {c \in AllCells :
        /\ c[1] >= e.x /\ c[1] < e.x + e.width
        /\ c[2] >= e.y /\ c[2] < e.y + e.width
        /\ c[3] >= e.z /\ c[3] < e.z + e.width}

Partitions(arr) ==
    LET es == elements(arr, 0)
    IN  /\ \A i, j \in 1 .. Len(es) :
              i # j => ElemCells(es[i]) \cap ElemCells(es[j]) = {}
        /\ \A c \in Occupied(arr) : \E i \in 1 .. Len(es) : c \in ElemCells(es[i])
        /\ \A i \in 1 .. Len(es) :
              \A c \in ElemCells(es[i]) : get_lod(arr, 0, c) = Some(es[i].value)

C20_ElementsPartition == status = "ok" => Partitions(array)

(* Where the widths are as C6 has them, C20 holds: the trees C20 fails on  *)
(* are the ones C6 fails on.                                               *)
WidthsHold(arr) ==
    \A i \in Slots :
        arr[i].k = "Value" =>
            /\ arr[i].w \in PowersOfTwo
            /\ Cardinality({j \in Slots : Resolve(arr, j) = i}) = arr[i].w * arr[i].w * arr[i].w

PartitionWhereWidthsHold ==
    (status = "ok" /\ WidthsHold(array)) => Partitions(array)

(***************************************************************************)
(* C17.  VolumetricTree behaves as a map: on every tree the calls can      *)
(* build, an insert(c, v) with c in range returns what get(c) was, leaves  *)
(* get(c) = Some(v) and every other cell's get as it was; a remove(c)      *)
(* returns what get(c) was, leaves get(c) = None and every other cell's    *)
(* get as it was.  So get(c) is the value of the last insert at c that no  *)
(* remove at c followed, and None without one.                             *)
(***************************************************************************)
VInCells == {c \in VCoords : vt_in_bounds(root, c)}

VProbeCells == VInCells \cup {<<-2, -2, -2>>, <<-1, 0, 0>>, <<1, 1, -1>>}

Gets(rt) == [c \in VProbeCells |-> vt_get(rt, c)]

C17_BehavesAsMap ==
    LET before == Gets(root)
    IN  /\ \A call \in VInserts :
              vt_in_bounds(root, call[1]) =>
                  LET r == vt_insert_impl(root, vt_len, call[1], call[2])
                  IN  /\ r.ret = before[call[1]]
                      /\ Gets(r.root) = [before EXCEPT ![call[1]] = Some(call[2])]
        /\ \A c \in VInCells :
              LET r == vt_remove_impl(root, vt_len, c)
              IN  /\ r.ret = before[c]
                  /\ Gets(r.root) = [before EXCEPT ![c] = None]

(* Two cells of different octants hold different values next to an empty    *)
(* cell, in a tree split down to unit leaves.                              *)
C17_Witness ==
    /\ vt_get(root, <<0, 0, 0>>) = Some(1)
    /\ vt_get(root, <<-1, -1, -1>>) = Some(0)
    /\ vt_get(root, <<0, 0, 1>>) = None
    /\ vt_get(root, <<1, 1, 1>>) = Some(0)
    /\ vt_len = 3
    /\ root.k = "Branch" /\ root.elems[8].k = "Branch"

(***************************************************************************)
(* C18.  VolumetricTree is always maximally merged: on every tree the      *)
(* calls can build no Branch has eight equal Leaf children, eight equal    *)
(* sibling cells are one Leaf of doubled width, and elements() yields one  *)
(* element per Leaf with a value, with the leaf's minimum corner and       *)
(* width, in child-index order.                                            *)
(***************************************************************************)
RECURSIVE MaxMerged(_)
MaxMerged(n) ==
    n.k = "Branch" =>
        /\ ~ (\A i \in 1 .. 8 : n.elems[i].k = "Leaf" /\ n.elems[i] = n.elems[1])
        /\ \A i \in 1 .. 8 : MaxMerged(n.elems[i])

RECURSIVE SeqConcat(_, _)
SeqConcat(f, i) == IF i > 8 THEN <<>> ELSE f[i] \o SeqConcat(f, i + 1)

(* The leaves with a value, depth first in child-index order. *)
RECURSIVE ValueLeaves(_, _)
ValueLeaves(n, at) ==
    IF n.k = "Leaf"
    THEN IF n.value = None THEN <<>> ELSE <<VElement(at, n.width, n.value[1])>>
    ELSE LET half == n.width \div 2
             sub == [i \in 1 .. 8 |->
                        ValueLeaves(n.elems[i],
                                    [a \in 1 .. 3 |-> at[a] + dir_index(i - 1)[a] * half])]
         IN  SeqConcat(sub, 1)

Octant == {c \in VCoords : \A a \in 1 .. 3 : c[a] \in 0 .. 1}

C18_MaximallyMerged ==
    /\ MaxMerged(root)
    /\ (\A c \in Octant : vt_get(root, c) = vt_get(root, <<0, 0, 0>>)) =>
          root.k = "Leaf" \/ root.elems[8] = Leaf(2, vt_get(root, <<0, 0, 0>>))
    /\ LET half == root.width \div 2
       IN  vt_elements(root) = ValueLeaves(root, <<-half, -half, -half>>)

(* The octant (0..1)^3 is one Leaf of width 2 with a value, next to a unit  *)
(* leaf with a value in another octant.                                    *)
C18_Witness ==
    /\ root.k = "Branch"
    /\ root.elems[8] = Leaf(2, Some(0))
    /\ vt_get(root, <<-1, -1, -1>>) = Some(1)
    /\ Len(vt_elements(root)) = 2

(***************************************************************************)
(* Helpers of the properties of the mesh.                                  *)
(***************************************************************************)
Normal(sd) ==
    CASE sd = "Top" -> <<0, 1, 0>>
      [] sd = "Bottom" -> <<0, -1, 0>>
      [] sd = "Front" -> <<0, 0, 1>>
      [] sd = "Back" -> <<0, 0, -1>>
      [] sd = "Left" -> <<1, 0, 0>>
      [] sd = "Right" -> <<-1, 0, 0>>

Across(c, sd) == [a \in 1 .. 3 |-> c[a] + Normal(sd)[a]]

OnBoundary(c, sd) == \E a \in 1 .. 3 : Across(c, sd)[a] \notin 0 .. Width - 1

Mirrored(c, sd) == [a \in 1 .. 3 |-> Across(c, sd)[a] % Width]

NeighbourPosition(ch, sd) == [a \in 1 .. 3 |-> ch.position[a] + Width * Normal(sd)[a]]

OpacityClass(b) ==
    IF solid(b) THEN "solid" ELSE IF transparent(b) THEN "transparent" ELSE "neither"

SameClass(a, b) == OpacityClass(a) = OpacityClass(b) /\ OpacityClass(a) # "neither"

(* The Map holds the home chunk alone, and the chunk two Stone voxels, at   *)
(* (0,0,0) and (0,0,1).                                                    *)
TwoVoxels ==
    /\ Cardinality(map) = 1
    /\ map_get(map, Home) # None
    /\ LET ch == map_get(map, Home)[1]
       IN  /\ DOMAIN ch.data = {<<0, 0, 0>>, <<0, 0, 1>>}
           /\ ch.data[<<0, 0, 0>>] = Stone
           /\ ch.data[<<0, 0, 1>>] = Stone

Shared(c, sd) ==
    \/ c = <<0, 0, 0>> /\ sd = "Front"
    \/ c = <<0, 0, 1>> /\ sd = "Back"

(***************************************************************************)
(* C14 as stated.  Face culling scenario: with the home chunk alone in the *)
(* Map and two Stone voxels at (0,0,0) and (0,0,1), the mesh holds neither *)
(* the front face of (0,0,0) nor the back face of (0,0,1), and holds each  *)
(* of the other ten faces of the two voxels.                               *)
(***************************************************************************)
C14_AllOtherFaces ==
    TwoVoxels =>
        LET faces == generate_chunk_mesh(map, map_get(map, Home)[1])
        IN  \A c \in {<<0, 0, 0>>, <<0, 0, 1>>}, sd \in Sides :
                Face(c, sd) \in faces <=> ~Shared(c, sd)

(***************************************************************************)
(* C14.  Face culling scenario: with the home chunk alone in the Map and   *)
(* two Stone voxels at (0,0,0) and (0,0,1), the mesh holds neither the     *)
(* front face of (0,0,0) nor the back face of (0,0,1), none of the five    *)
(* faces that lie on the chunk's boundary (bottom, back and right of       *)
(* (0,0,0), bottom and right of (0,0,1)), and each of the other five       *)
(* faces (top and left of both, front of (0,0,1)).                         *)
(***************************************************************************)
C14_FaceCulling ==
    TwoVoxels =>
        LET faces == generate_chunk_mesh(map, map_get(map, Home)[1])
        IN  /\ \A c \in {<<0, 0, 0>>, <<0, 0, 1>>}, sd \in Sides :
                  Face(c, sd) \in faces <=> ~Shared(c, sd) /\ ~OnBoundary(c, sd)
            /\ faces = {Face(<<0, 0, 0>>, "Top"), Face(<<0, 0, 0>>, "Left"),
                        Face(<<0, 0, 1>>, "Top"), Face(<<0, 0, 1>>, "Left"),
                        Face(<<0, 0, 1>>, "Front")}

(* The scenario, meshed. *)
C14_Witness ==
    /\ TwoVoxels
    /\ mesh = Some(generate_chunk_mesh(map, map_get(map, Home)[1]))
    /\ Cardinality(mesh[1]) = 5

ChunkCells == {<<x, y, z>> : x \in 0 .. Width - 1, y \in 0 .. Width - 1, z \in 0 .. Width - 1}

(* The home chunk holds exactly one voxel, a solid one. *)
OneSolidVoxel ==
    /\ map_get(map, Home) # None
    /\ LET ch == map_get(map, Home)[1]
       IN  Cardinality(DOMAIN ch.data) = 1 /\ \A c \in DOMAIN ch.data : solid(ch.data[c])

TheVoxel == CHOOSE c \in DOMAIN map_get(map, Home)[1].data : TRUE

(* c is k steps from v along d, for some k >= from. *)
Along(v, d, c, from) ==
    \E k \in from .. Width : \A a \in 1 .. 3 : c[a] = v[a] + k * d[a]

(* Orders of visiting the cells: the code's, its reverse, and z outermost. *)
Orders ==
    {CellOrder,
     [k \in 1 .. Width * Width * Width |-> CellOrder[Width * Width * Width + 1 - k]],
     [k \in 1 .. Width * Width * Width |->
         <<(k - 1) % Width, ((k - 1) \div Width) % Width, (k - 1) \div (Width * Width)>>]}

(***************************************************************************)
(* C16 as stated.  Light map determinism: with an axis-aligned light       *)
(* direction and exactly one solid voxel in the chunk, light_map_update    *)
(* leaves has_light = true and a light value in every cell: 0.0 in the     *)
(* cells behind the voxel along the direction and 1.0 in all other cells,  *)
(* in whatever order the cells are visited.                                *)
(***************************************************************************)
C16_OnlyBehindIsDark ==
    OneSolidVoxel =>
        \A order \in Orders :
            LET after == light_map_chunk(map_get(map, Home)[1], direction, order)
            IN  /\ after.has_light
                /\ DOMAIN after.light = ChunkCells
                /\ \A c \in ChunkCells :
                      after.light[c] = IF Along(TheVoxel, direction, c, 1) THEN 0 ELSE 1

(***************************************************************************)
(* C16.  Light map determinism: with an axis-aligned light direction and   *)
(* exactly one solid voxel in the chunk, light_map_update leaves           *)
(* has_light = true and a light value in every cell: 0.0 in the voxel's    *)
(* own cell and in the cells behind it along the direction, 1.0 in all     *)
(* other cells, in whatever order the cells are visited.                   *)
(***************************************************************************)
C16_LightMapDeterminism ==
    OneSolidVoxel =>
        \A order \in Orders :
            LET after == light_map_chunk(map_get(map, Home)[1], direction, order)
            IN  /\ after.has_light
                /\ DOMAIN after.light = ChunkCells
                /\ \A c \in ChunkCells :
                      after.light[c] = IF Along(TheVoxel, direction, c, 0) THEN 0 ELSE 1

(* The light map of a chunk with one voxel at (1,2,1), lit along +y: the    *)
(* voxel's cell and the cell above it are dark, the cell below is lit.     *)
C16_Witness ==
    /\ OneSolidVoxel
    /\ TheVoxel = <<1, 2, 1>>
    /\ direction = <<0, 1, 0>>
    /\ LET ch == map_get(map, Home)[1]
       IN  /\ ch.has_light
           /\ ch = light_map_chunk(ch, direction, CellOrder)
           /\ ch.light[<<1, 2, 1>>] = 0
           /\ ch.light[<<1, 3, 1>>] = 0
           /\ ch.light[<<1, 1, 1>>] = 1


(***************************************************************************)
(* C21.  Recorded width means an aligned cube: after inserts into a fresh  *)
(* tree and one merge(), a Value node at slot i with recorded width w is   *)
(* what exactly the w^3 cells of the aligned cube of side w with slot i's  *)
(* coordinate as minimum corner resolve to.                                *)
(***************************************************************************)
Unmerged(arr) == \A i \in Slots : arr[i].k = "Value" /\ arr[i].w = 1

CubeAt(i, w) ==
    LET p == array_index(i, depth)
    IN  {c \in AllCells : \A a \in 1 .. 3 : c[a] >= p[a] /\ c[a] < p[a] + w}

ResolveTo(arr, i) == {c \in AllCells : Resolve(arr, SlotOf(c)) = i}

WidthIsCube(arr) ==
    \A i \in Slots :
        arr[i].k = "Value" => ResolveTo(arr, i) = CubeAt(i, arr[i].w)

C21_WidthIsAlignedCube ==
    (status = "ok" /\ Unmerged(array)) =>
        \A o \in merge_impl(array) : o[2] = "ok" => WidthIsCube(o[1])

(* Where some block's first cell differs from another's, or all eight are  *)
(* empty, the merge leaves widths that are aligned cubes: C21 fails only   *)
(* on the trees whose eight first cells hold one value.                    *)
FirstCellsAgree(arr) ==
    \A c \in BCoords : arr[SlotOf(c)].val = arr[0].val /\ arr[0].val # None

WidthIsCubeElsewhere ==
    (status = "ok" /\ Unmerged(array) /\ ~FirstCellsAgree(array)) =>
        \A o \in merge_impl(array) : o[2] = "ok" /\ WidthIsCube(o[1])


(***************************************************************************)
(* C25.  merge() preserves content: on a tree without Ref nodes, built by  *)
(* insert and remove on a fresh tree, one merge() returns and leaves       *)
(* get(c) at lod 0 and contains_key(c) as they were for every cell c of    *)
(* the grid.                                                               *)
(***************************************************************************)
C25_MergePreservesContent ==
    (status = "ok" /\ ~HasRef(array)) =>
        \A o \in merge_impl(array) :
            /\ o[2] = "ok"
            /\ \A c \in AllCells :
                  /\ get_lod(o[1], 0, c) = get_lod(array, 0, c)
                  /\ contains_key(o[1], c) = contains_key(array, c)

(* The tree right after the merge of a tree that held two values and an    *)
(* empty cell in one block: the seven empty blocks are collapsed, the      *)
(* block's cells are as they were.                                         *)
C25_Witness ==
    /\ status = "ok"
    /\ last = NoCall
    /\ array[0] = Value(None, 2)
    /\ \A i \in 1 .. 7 : array[i] = Ref(0)
    /\ array[SlotOf(<<2, 2, 2>>)] = Value(Some(0), 1)
    /\ array[SlotOf(<<3, 3, 3>>)] = Value(Some(1), 1)
    /\ array[SlotOf(<<3, 2, 2>>)] = Value(None, 1)


(***************************************************************************)
(* C27.  contains_key agrees with get: for every coordinate c, in bounds   *)
(* or not, contains_key(c) is true exactly when get(c) at lod 0 is not     *)
(* None; contains_key is false for every coordinate with an axis below 0   *)
(* or at or above the width.                                               *)
(***************************************************************************)
C27_ContainsKeyAgrees ==
    status = "ok" =>
        \A c \in ProbeCells \cup OutProbe :
            /\ contains_key(array, c) <=> get_lod(array, 0, c) # None
            /\ ~InBounds(c) => ~contains_key(array, c)

(* In bounds the two agree: C27 fails only on coordinates out of bounds.   *)
AgreeInBounds ==
    status = "ok" =>
        \A c \in AllCells : contains_key(array, c) <=> get_lod(array, 0, c) # None


(***************************************************************************)
(* C28.  get is total for every lod: for every value set_lod can be given, *)
(* the values above the tree's depth included, and every coordinate in     *)
(* bounds, get returns None or an average and reads no slot outside the    *)
(* array.                                                                  *)
(***************************************************************************)
(* The lod of a chunk one step farther than the tree is deep. *)
FarLod == depth + 1

C28_GetIsTotal ==
    status = "ok" =>
        \A l \in 0 .. FarLod, c \in ProbeCells :
            get_lod(array, l, c) \notin {OutOfRange, Diverges}

(* Up to the tree's depth get returns: C28 fails only above it.            *)
GetIsTotalToDepth ==
    status = "ok" =>
        \A l \in 0 .. depth, c \in ProbeCells :
            get_lod(array, l, c) \notin {OutOfRange, Diverges}


(***************************************************************************)
(* C26.  elements_mut() fully un-merges: on every tree the calls can       *)
(* build, consuming the whole iterator yields exactly one item of width 1  *)
(* per occupied unit cell, holding the cell's value, and, the caller       *)
(* writing nothing, leaves a tree with no Ref node, every width 1 and      *)
(* get(c) as it was for every cell c: a merge() run right after starts     *)
(* from an un-merged tree.                                                 *)
(***************************************************************************)
ItemCell(e) == <<e.x, e.y, e.z>>

C26_ElementsMutUnmerges ==
    status = "ok" =>
        LET o == elements_mut_impl(array)
            items == elements_mut_items(array)
            before == [c \in AllCells |-> get_lod(array, 0, c)]
            occ == {c \in AllCells : before[c] # None}
        IN  /\ o[2] = "ok"
            /\ Unmerged(o[1])
            /\ \A c \in AllCells : get_lod(o[1], 0, c) = before[c]
            /\ Len(items) = Cardinality(occ)
            /\ {ItemCell(items[k]) : k \in 1 .. Len(items)} = occ
            /\ \A k \in 1 .. Len(items) :
                  /\ items[k].width = 1
                  /\ Some(items[k].value) = before[ItemCell(items[k])]

(* The iterator has just been consumed on a merged tree in which eight     *)
(* cells were occupied: it found Ref nodes, yielded the eight cells and    *)
(* left an un-merged tree.                                                 *)
C26_Witness ==
    /\ status = "ok"
    /\ "items" \in DOMAIN last
    /\ last.refs >= 7
    /\ Len(last.items) = 8
    /\ Unmerged(array)
    /\ Cardinality(Occupied(array)) = 8


(***************************************************************************)
(* C30.  Save/load round trip: for every tree t the calls can build,       *)
(* LodTree::from(RleTree::with_tree(t)) is a tree of the same width whose  *)
(* get(c) at lod 0 is t's get(c) for every cell c, trees that mix empty    *)
(* and occupied cells included.                                            *)
(***************************************************************************)
RoundTrip(arr) == lod_tree_from(with_tree(arr))

C30_SaveLoadRoundTrip ==
    status = "ok" =>
        LET t == RoundTrip(array)
        IN  /\ Pow(2, t.depth) = Width
            /\ DOMAIN t.array = Slots
            /\ \A c \in AllCells : get_lod(t.array, 0, c) = get_lod(array, 0, c)

(***************************************************************************)
(* C22.  Neighbours are re-lit after generation: whenever                  *)
(* terrain_generation has generated the chunk at c while the neighbouring  *)
(* coordinate n holds a chunk, a later shaded_light_update pass processes  *)
(* n at a time when c's light map has been computed, as long as every      *)
(* pass keeps being run.                                                   *)
(***************************************************************************)
Generated(c) == qlast.pass = "terrain_generation" /\ qlast.at = {c}

ReShaded(c, n) ==
    /\ qstatus = "ok"
    /\ qlast.pass = "shaded_light_update"
    /\ n \in qlast.at
    /\ c \in has_light

C22_NeighboursReLit ==
    \A c \in QCoords : \A n \in Around(c) \cap QCoords :
        [](Generated(c) /\ n \in chunks => <>ReShaded(c, n))

(* A neighbour that waits for its light map when c has been generated is   *)
(* shaded after c's light map, unless a pass panics.                       *)
ReLitWhenQueuedAnew ==
    \A c \in QCoords : \A n \in Around(c) \cap QCoords :
        [](Generated(c) /\ n \in Pending(updates, "UpdateLightMap") \cap chunks
              => <>(ReShaded(c, n) \/ qstatus = "panic"))

(***************************************************************************)
(* C29.  Pipeline liveness: from the empty Map and a queue of              *)
(* GenerateChunk entries, as long as every pass keeps being run, no pass   *)
(* panics and eventually every requested coordinate holds a chunk that has *)
(* its light, has been shaded and meshed, and the queue is empty.          *)
(***************************************************************************)
(* A shaded chunk without an entry: chunk_update has taken the UpdateMesh  *)
(* entry that shaded_light_update left for it.                             *)
Meshed(c) == c \in shaded /\ c \notin DOMAIN updates

PipelineDone ==
    /\ DOMAIN updates = {}
    /\ \A c \in QCoords : c \in chunks /\ c \in has_light /\ Meshed(c)

C29_PipelineLiveness == [](qstatus = "ok") /\ <>PipelineDone

(* The passes that do not panic finish the work. *)
DoneUnlessPanic == <>(PipelineDone \/ qstatus = "panic")

(***************************************************************************)
(* C23.  Boundary samples wrap into the neighbour: for a chunk whose       *)
(* buffer a shading pass has built, a sample position with coordinate -1   *)
(* on an axis is read from the lit neighbour on that side at Width - 1,    *)
(* and one with coordinate Width from the lit neighbour at 0, so the       *)
(* neighbour's light is a sample of the mean.                              *)
(***************************************************************************)
wraps_to(x) == IF x = -1 THEN Width - 1 ELSE IF x = Width THEN 0 ELSE x

(* The positions one step outside the chunk. *)
BoundarySamples ==
    {p \in {<<x, y, z>> : x \in -1 .. Width, y \in -1 .. Width, z \in -1 .. Width} :
        ~ InChunk(p)}

SampleWraps(ch, p) ==
    LET neighbour == neighbour_of(map, ch, p)
    IN  (neighbour # None /\ neighbour[1].has_light) =>
            /\ light_sample(map, ch, p)
                   = chunk_light(neighbour[1], <<wraps_to(p[1]), wraps_to(p[2]), wraps_to(p[3])>>)
            /\ light_sample(map, ch, p) # None

C23_BoundarySamplesWrap ==
    shading.pass # "none" =>
        \A ch \in map :
            ch.position \in DOMAIN shading.light_maps =>
                \A p \in BoundarySamples : SampleWraps(ch, p)

(* The samples past the far side of the chunk are read from the neighbour. *)
FarSideWraps ==
    shading.pass # "none" =>
        \A ch \in map :
            ch.position \in DOMAIN shading.light_maps =>
                \A p \in BoundarySamples :
                    (p[1] >= 0 /\ p[2] >= 0 /\ p[3] >= 0) => SampleWraps(ch, p)

(* A pass has built the buffer of a chunk with a lit neighbour on its far  *)
(* side.                                                                   *)
FarSideSampled ==
    /\ shading.pass = "ok"
    /\ \E ch \in map :
          /\ ch.position \in DOMAIN shading.light_maps
          /\ \E p \in BoundarySamples :
                /\ p[1] = Width
                /\ neighbour_of(map, ch, p) # None
                /\ neighbour_of(map, ch, p)[1].has_light

(***************************************************************************)
(* C24.  Two-phase shading is order-independent: what a shading pass       *)
(* leaves, the buffers and the shades written, is what the pass leaves     *)
(* when the slabs finish in ascending order and the chunks are taken in    *)
(* the order of the row, whatever order the slabs finished in and the      *)
(* chunks were taken in.  The pass writes no light map and no has_light,   *)
(* so the Map's light is as it was when the pass began.                    *)
(***************************************************************************)
InRowOrder(todo) == SelectSeq(SRow, LAMBDA pos : pos \in todo)

Ascending == <<-1, 0, 1, 2, 3, 4>>

PassInOrder ==
    LET todo == DOMAIN shading.light_maps
    IN  shade_outcome(map, collect_light_maps(slabs_of_all(map, todo), Ascending),
                      InRowOrder(todo), direction)

C24_OrderIndependent ==
    shading.pass # "none" =>
        /\ shading.light_maps = PassInOrder.light_maps
        /\ shading.pass = PassInOrder.pass
        /\ shading.shades = PassInOrder.shades

(* The buffers, and whether the pass panics, do not depend on the order;   *)
(* nor do the shades of a pass that does not panic.                        *)
BuffersOrderIndependent ==
    shading.pass # "none" =>
        /\ shading.light_maps = PassInOrder.light_maps
        /\ shading.pass = PassInOrder.pass
        /\ shading.pass = "ok" => shading.shades = PassInOrder.shades


=============================================================================
